---- MODULE Spec2Model ----
(***************************************************************************)
(* A model of vramfs: the entry tree and facade of src/src/vramfs.cpp      *)
(* (index_find, make_entry, move_entry, delete_entry, delete_blocks, the   *)
(* vram_* operations) over the block pool of src/src/memory.cpp            *)
(* (pool, block::block, block::~block, block::read, block::write).         *)
(*                                                                         *)
(* A Block is a shared handle (memory.hpp: block_ref = shared_ptr<block>): *)
(* it is referenced from the file_blocks map, from a session's             *)
(* last_written_block and from the local variable of a read in progress;   *)
(* its destructor runs when the last reference goes and pushes the buffer  *)
(* back on the pool.  Device transfers take effect in submission order     *)
(* (in-order queue), so a write is modelled as an immediate update of the  *)
(* buffer.                                                                 *)
(***************************************************************************)
EXTENDS Integers, Sequences, FiniteSets, TLC

(***************************************************************************)
(* Bounds of the model.                                                    *)
(***************************************************************************)
\* memory::block::size scaled down (128 KiB in the program).
BlockSize == 2
\* Buffers added to the pool at startup.
PoolBlocks == 2
\* Blocks a file may span: file positions are 0 .. MaxBlocks*BlockSize - 1.
MaxBlocks == 3
\* Entries alive at the same time, the root included.
MaxEntries == 3
\* File sessions open at the same time.
MaxSessions == 2
\* Payload bytes are 1 .. MaxByte; 0 is the zero byte.
MaxByte == 2
\* The wall clock runs from 0 to MaxClock.
MaxClock == 1
\* Width of size_t and of int in bits, scaled down with the block size (64
\* and 32 in the program): as in the program, 2^SizeBits \div BlockSize is
\* a multiple of 2^IntBits.
SizeBits == 6
IntBits == 3

(***************************************************************************)
(* Program constants.                                                      *)
(***************************************************************************)
Nil == 0
RootId == 1
EPERM == 1
ENOENT == 2
EEXIST == 17
ENOTDIR == 20
EISDIR == 21
ENOSPC == 28
ENOTEMPTY == 39
DEFAULT_FILE_MODE == 436
DEFAULT_DIR_MODE == 509
DirSize == 4096
LinkMode == 511

TFile == "file"
TDir == "dir"
TLink == "link"
TypeAll == {TFile, TDir, TLink}

Names == {"a", "b"}
Threads == {"t1", "t2"}
Free == "free"
MaxPos == MaxBlocks * BlockSize
Buffers == 1..PoolBlocks
Sessions == 1..MaxSessions
Bytes == 0..MaxByte
\* The target strings symlink is called with.
Targets == {<<"x">>}
RootPath == <<>>

VARIABLES
    entry,          \* id -> entry_t (types.hpp) or DeadEntry; the root is RootId
    file_blocks,    \* <<entry id, block start>> -> Block
    pool,           \* memory.cpp: the free-list, its back is the last element
    total_blocks,   \* memory.cpp: total_blocks
    live,           \* the Blocks constructed and not yet destroyed (by buffer)
    dirty,          \* block::dirty of each Block
    buf,            \* contents of each device buffer
    queue,          \* memory.cpp: the command queue; the Blocks whose last_write
                    \* has not completed, in the order the writes were enqueued
    session,        \* file_session objects: entry and last_written_block
    fslock,         \* the global mutex: Free or the thread holding it
    rd,             \* per thread: the locals of a vram_read in progress
    now,            \* the wall clock
    crashed,        \* a null pointer was dereferenced
    last,           \* the last completed facade call, its inputs and result
    written,        \* history, per file while wlog[e].ok: the byte written at
                    \* each position (0: none)
    wlog,           \* history, per file: ok while all that was done to the
                    \* file since its creation is k <= 2 complete writes to
                    \* pairwise disjoint ranges, and reads
    caller,         \* block::write seen from the device (SpecAsync): the
                    \* buffer of the caller, [ok, bytes]; not ok once freed
    copies,         \* the heap: per slot, whether a data_copy lives in it,
                    \* and its bytes
    cmdq,           \* the commands the device has not executed, in order
    events,         \* completed writes whose callback has not run yet
    blk,            \* one Block: what the device has stored in its buffer,
                    \* and block::dirty
    sent            \* history: the buffer contents the writes called so far
                    \* amount to, and the first misuse of the heap

vars == <<entry, file_blocks, pool, total_blocks, live, dirty, buf, queue,
          session, fslock, rd, now, crashed, last, written, wlog,
          caller, copies, cmdq, events, blk, sent>>

Min(a, b) == IF a < b THEN a ELSE b
Max(a, b) == IF a > b THEN a ELSE b
Front(s) == SubSeq(s, 1, Len(s) - 1)
Last(s) == s[Len(s)]

(***************************************************************************)
(* util::time and the payloads written.                                    *)
(***************************************************************************)
\* A reading of the wall clock, by util::time (CLOCK_REALTIME_COARSE) or by
\* entry_t() (CLOCK_REALTIME): the two are taken as one clock whose readings
\* never go back.
Time == now

\* The n payload bytes of pattern v: they differ from one position to the next.
Payload(n, v) == [i \in 1..n |-> 1 + ((v + i) % MaxByte)]

NoOp == [op |-> "none"]

\* Heap slots a data_copy of block::write can be allocated in.
MaxCopies == 2
Slots == 1..MaxCopies
NoCopy == [live |-> FALSE, bytes |-> <<>>]
\* The data pointer of a write that was given the caller's buffer itself.
CallerPtr == 0
IdleRead == [pc |-> "idle"]

(***************************************************************************)
(* The memory state threaded through an operation:                         *)
(* [fb, pool, live, dirty, buf, queue, sess, rd].                          *)
(***************************************************************************)
Mem == [fb |-> file_blocks, pool |-> pool, live |-> live, dirty |-> dirty,
        buf |-> buf, queue |-> queue, sess |-> session, rd |-> rd]

\* The queue without the write of Block b.
Without(q, b) == SelectSeq(q, LAMBDA x : x # b)

\* enqueueWriteBuffer with &event: b's last_write is now the newest command.
Enqueue(q, b) == Append(Without(q, b), b)

\* cl::Event::wait on b's last_write: the queue is in-order, so the commands
\* enqueued before it are complete as well.
WaitFor(q, b) ==
    IF \E i \in 1..Len(q) : q[i] = b
    THEN SubSeq(q, 1 + (CHOOSE i \in 1..Len(q) : q[i] = b), Len(q))
    ELSE q

\* Whether some block_ref still refers to Block b.
Referenced(m, b) ==
    \/ \E k \in DOMAIN m.fb : m.fb[k] = b
    \/ \E s \in Sessions : m.sess[s].entry # Nil /\ m.sess[s].last_written_block = b
    \/ \E t \in Threads : m.rd[t].pc # "idle" /\ m.rd[t].block = b

\* A destructor that forgets to hand the buffer back.
BlockDtorNoPush(m, b) ==
    [m EXCEPT !.live = m.live \ {b}, !.dirty[b] = TRUE,
              !.queue = Without(m.queue, b)]

\* block::~block; the object, its dirty flag and its last_write are gone, a
\* Block constructed on this buffer later starts dirty.
BlockDtor(m, b) ==
    [m EXCEPT !.pool = Append(m.pool, b), !.live = m.live \ {b},
              !.dirty[b] = TRUE, !.queue = Without(m.queue, b)]

\* A release that destroys the Block while other handles refer to it.
UnrefEager(m, b) ==
    IF b = Nil \/ b \notin m.live THEN m ELSE BlockDtor(m, b)

\* A block_ref to b has gone: the Block is destroyed with its last reference.
Unref(m, b) ==
    IF b = Nil \/ b \notin m.live \/ Referenced(m, b) THEN m ELSE BlockDtor(m, b)

\* block::block: takes the buffer at the back of the pool; dirty until written.
BlockCtor(m) ==
    LET b == m.pool[Len(m.pool)]
    IN  [m EXCEPT !.pool = SubSeq(m.pool, 1, Len(m.pool) - 1),
                  !.live = m.live \cup {b},
                  !.dirty[b] = TRUE]

\* memory::allocate: the new Block, or Nil when the pool is empty.
Allocate(m) ==
    IF Len(m.pool) # 0
    THEN [m |-> BlockCtor(m), block |-> m.pool[Len(m.pool)]]
    ELSE [m |-> m, block |-> Nil]

\* clear_buffer
ClearBuffer(m, b) == [m EXCEPT !.buf[b] = [i \in 0..BlockSize-1 |-> 0]]

\* A write that never zero-fills a buffer taken over from a previous owner.
BlockWriteNoClear(m, b, offset, size, bytes) ==
    [m EXCEPT !.buf[b] = [i \in 0..BlockSize-1 |->
                            IF i >= offset /\ i < offset + size
                            THEN bytes[i - offset + 1]
                            ELSE m.buf[b][i]],
              !.dirty[b] = FALSE,
              !.queue = Enqueue(m.queue, b)]

\* A write that zero-fills on every partial write, not only on the first.
BlockWriteAlwaysClear(m, b, offset, size, bytes) ==
    LET c == IF size # BlockSize
             THEN [m EXCEPT !.buf[b] = [i \in 0..BlockSize-1 |-> 0]]
             ELSE m
    IN  [c EXCEPT !.buf[b] = [i \in 0..BlockSize-1 |->
                                IF i >= offset /\ i < offset + size
                                THEN bytes[i - offset + 1]
                                ELSE c.buf[b][i]],
                  !.dirty[b] = FALSE,
                  !.queue = Enqueue(c.queue, b)]

\* block::write: bytes is the payload of this slice.
BlockWrite(m, b, offset, size, bytes) ==
    LET c == IF m.dirty[b] /\ size # BlockSize THEN ClearBuffer(m, b) ELSE m
    IN  [c EXCEPT !.buf[b] = [i \in 0..BlockSize-1 |->
                                IF i >= offset /\ i < offset + size
                                THEN bytes[i - offset + 1]
                                ELSE c.buf[b][i]],
                  !.dirty[b] = FALSE,
                  !.queue = Enqueue(c.queue, b)]

\* block::read in the memory state (dr, bf): the bytes handed back for
\* [offset, offset + size).
BlockReadIn(dr, bf, b, offset, size) ==
    IF dr[b]
    THEN [i \in 1..size |-> 0]
    ELSE [i \in 1..size |-> bf[b][offset + i - 1]]

\* block::read in the current state.
BlockRead(b, offset, size) == BlockReadIn(dirty, buf, b, offset, size)

(***************************************************************************)
(* Helpers of vramfs.cpp.                                                  *)
(***************************************************************************)
BlockStart(off) == (off \div BlockSize) * BlockSize

\* get_block: the Block at <<e, off>> or Nil.
GetBlock(fb, e, off) == IF <<e, off>> \in DOMAIN fb THEN fb[<<e, off>>] ELSE Nil

\* create_block
CreateBlock(m, e, off) ==
    LET a == Allocate(m)
    IN  IF a.block # Nil
        THEN [m |-> [a.m EXCEPT !.fb = (<<e, off>> :> a.block) @@ a.m.fb],
              block |-> a.block]
        ELSE a

\* The keys of e that delete_blocks erases: it starts at the key found for
\* start_off and walks up the keys of e, erasing those at or above off.
DeletedOffsets(fb, e, off) ==
    LET start_off == BlockStart(off)
    IN  IF <<e, start_off>> \notin DOMAIN fb THEN {}
        ELSE {k[2] : k \in {x \in DOMAIN fb : x[1] = e /\ x[2] >= start_off /\ x[2] >= off}}

RECURSIVE EraseBlocks(_, _, _)
\* Erases the keys <<e, o>>, o in offs, in ascending order, dropping each Block.
EraseBlocks(m, e, offs) ==
    IF offs = {} THEN m
    ELSE LET o == CHOOSE x \in offs : \A y \in offs : x <= y
             b == m.fb[<<e, o>>]
             m1 == [m EXCEPT !.fb = [k \in DOMAIN m.fb \ {<<e, o>>} |-> m.fb[k]]]
         IN  EraseBlocks(Unref(m1, b), e, offs \ {o})

\* delete_blocks
DeleteBlocks(m, e, off) == EraseBlocks(m, e, DeletedOffsets(m.fb, e, off))

(***************************************************************************)
(* The entry tree.                                                         *)
(***************************************************************************)
EmptyFn == [x \in {} |-> Nil]

\* entry_t::entry_t (types.hpp): the defaults and the three timestamps.
NewEntry(parent, name) ==
    [alloc |-> TRUE, parent |-> parent, children |-> EmptyFn, name |-> name,
     dir |-> FALSE, mode |-> 0, size |-> DirSize, atime |-> Time,
     mtime |-> Time, ctime |-> Time, target |-> <<>>]

\* An id no entry_t object has: the last shared_ptr to it is gone.
DeadEntry ==
    [alloc |-> FALSE, parent |-> Nil, children |-> EmptyFn, name |-> "",
     dir |-> FALSE, mode |-> 0, size |-> 0, atime |-> 0, mtime |-> 0,
     ctime |-> 0, target |-> <<>>]

Ids == 1..MaxEntries

\* The id std::make_shared<entry_t> gives the next entry, Nil when all are taken.
FreeId(ent) ==
    IF \E i \in Ids : ~ent[i].alloc
    THEN CHOOSE i \in Ids : ~ent[i].alloc /\ \A j \in Ids : ~ent[j].alloc => i <= j
    ELSE Nil

\* Whether a shared_ptr<entry_t> refers to e: a children map, a file_session
\* or a key of file_blocks.
EntryHeld(ent, m, e) ==
    \/ e = RootId
    \/ \E p \in Ids : ent[p].alloc /\ \E n \in DOMAIN ent[p].children :
                                        ent[p].children[n] = e
    \/ \E s \in Sessions : m.sess[s].entry = e
    \/ \E k \in DOMAIN m.fb : k[1] = e

RECURSIVE Reap(_, _)
\* ~entry_t of the entries no shared_ptr refers to any more, and of those
\* only their children maps referred to.
Reap(ent, m) ==
    IF \E e \in Ids : ent[e].alloc /\ ~EntryHeld(ent, m, e)
    THEN Reap([e \in Ids |-> IF ent[e].alloc /\ ~EntryHeld(ent, m, e)
                             THEN DeadEntry ELSE ent[e]], m)
    ELSE ent

\* children.erase(name)
EraseChild(ch, name) == [n \in (DOMAIN ch) \ {name} |-> ch[n]]

\* children[name] = id
PutChild(ch, name, id) == (name :> id) @@ ch

\* make_entry: the new entry gets the id FreeId(ent).
MakeEntry(ent, parent, name) ==
    LET id == FreeId(ent)
        e1 == [ent EXCEPT ![id] = NewEntry(parent, name)]
    IN  IF parent # Nil
        THEN [e1 EXCEPT ![parent].children = PutChild(@, name, id)]
        ELSE e1

\* A move that leaves the entry in its old directory as well.
MoveEntryNoErase(ent, e, new_parent, new_name) ==
    LET e2 == [ent EXCEPT ![e].parent = new_parent, ![e].name = new_name]
    IN  IF new_parent # Nil
        THEN [e2 EXCEPT ![new_parent].children = PutChild(@, new_name, e)]
        ELSE e2

\* move_entry; the caller has checked that entry->parent is not null.
MoveEntry(ent, e, new_parent, new_name) ==
    LET e1 == [ent EXCEPT ![ent[e].parent].children = EraseChild(@, ent[e].name)]
        e2 == [e1 EXCEPT ![e].parent = new_parent, ![e].name = new_name]
    IN  IF new_parent # Nil
        THEN [e2 EXCEPT ![new_parent].children = PutChild(@, new_name, e)]
        ELSE e2

\* util::split_file_path on a path given as its sequence of components.
SplitDir(path) == IF path = <<>> THEN <<>> ELSE Front(path)
SplitFile(path) == IF path = <<>> THEN "" ELSE Last(path)

RECURSIVE Walk(_, _, _)
\* The loop of index_find over the components of the path.
Walk(ent, cur, rest) ==
    IF rest = <<>> THEN [err |-> 0, entry |-> cur]
    ELSE IF ~ent[cur].dir THEN [err |-> -ENOTDIR, entry |-> cur]
    ELSE IF Head(rest) \in DOMAIN ent[cur].children
    THEN Walk(ent, ent[cur].children[Head(rest)], Tail(rest))
    ELSE [err |-> -ENOENT, entry |-> cur]

ActualType(x) ==
    IF Len(x.target) > 0 THEN TLink ELSE IF x.dir THEN TDir ELSE TFile

\* An error choice that knows one error only.
FilterErrorPerm(at, filter) == -EPERM

\* The error index_find chooses for an entry of type at excluded by filter.
FilterError(at, filter) ==
    IF at = TFile
    THEN (IF TLink \in filter THEN -ENOENT
          ELSE IF TDir \in filter THEN -EISDIR ELSE 0)
    ELSE IF at = TDir
    THEN (IF TFile \in filter THEN -ENOTDIR
          ELSE IF TLink \in filter THEN -EPERM ELSE 0)
    ELSE -EPERM

\* index_find
IndexFind(ent, path, filter) ==
    IF filter \cap TypeAll = {} THEN [err |-> -ENOENT, entry |-> Nil]
    ELSE LET w == Walk(ent, RootId, path)
         IN  IF w.err # 0 THEN w
             ELSE IF ActualType(ent[w.entry]) \notin filter
             THEN [err |-> FilterError(ActualType(ent[w.entry]), filter),
                   entry |-> w.entry]
             ELSE w

\* A delete_entry that frees the blocks but leaves the name in the directory.
DeleteEntryKeepChild(ent, m, e) ==
    IF ent[e].parent = Nil
    THEN [ent |-> ent, m |-> m, crash |-> TRUE]
    ELSE [ent |-> [ent EXCEPT ![ent[e].parent].ctime = Time,
                              ![ent[e].parent].mtime = Time],
          m |-> DeleteBlocks(m, e, 0),
          crash |-> FALSE]

\* delete_entry; crash: entry->parent is null and is dereferenced.
DeleteEntry(ent, m, e) ==
    IF ent[e].parent = Nil
    THEN [ent |-> ent, m |-> m, crash |-> TRUE]
    ELSE LET p == ent[e].parent
         IN  [ent |-> [ent EXCEPT ![p].ctime = Time, ![p].mtime = Time,
                                  ![p].children = EraseChild(@, ent[e].name)],
              m |-> DeleteBlocks(m, e, 0),
              crash |-> FALSE]

\* A set_file_size that drops blocks but never makes the file larger.
SetFileSizeShrinkOnly(ent, m, e, size) ==
    IF ent[e].size > size
    THEN [ent |-> [ent EXCEPT ![e].size = size], m |-> DeleteBlocks(m, e, size)]
    ELSE [ent |-> ent, m |-> m]

\* set_file_size
SetFileSize(ent, m, e, size) ==
    [ent |-> [ent EXCEPT ![e].size = size],
     m |-> IF ent[e].size > size THEN DeleteBlocks(m, e, size) ELSE m]

(***************************************************************************)
(* The facade.  An operation other than read holds fslock from entry to    *)
(* return and is one step; a thread inside vram_read calls nothing else.   *)
(* last is the record of the call completed last: its inputs and result.   *)
(***************************************************************************)
Idle(t) == ~crashed /\ fslock = Free /\ rd[t].pc = "idle"

Commit(m) ==
    /\ file_blocks' = m.fb
    /\ pool' = m.pool
    /\ live' = m.live
    /\ dirty' = m.dirty
    /\ buf' = m.buf
    /\ queue' = m.queue
    /\ session' = m.sess

MemUnchanged == UNCHANGED <<file_blocks, pool, live, dirty, buf, queue, session>>

\* What every step of this model leaves alone.
Fixed == UNCHANGED <<total_blocks, caller, copies, cmdq, events, blk, sent>>

\* An operation that returns an error before it changes anything.
Fail(rec) ==
    /\ last' = rec
    /\ MemUnchanged
    /\ Fixed
    /\ UNCHANGED <<entry, fslock, rd, now, crashed, written, wlog>>

\* A null pointer is dereferenced: the process dies where it stands.
Crash ==
    /\ crashed' = TRUE
    /\ last' = [op |-> "crash"]
    /\ MemUnchanged
    /\ Fixed
    /\ UNCHANGED <<entry, fslock, rd, now, written, wlog>>

\* The lowest free session slot, Nil when all are open.
FreeSession ==
    IF \E s \in Sessions : session[s].entry = Nil
    THEN CHOOSE s \in Sessions :
            /\ session[s].entry = Nil
            /\ \A x \in Sessions : session[x].entry = Nil => s <= x
    ELSE Nil

\* new file_session(entry)
NewSession(sess, s, e) ==
    [sess EXCEPT ![s] = [entry |-> e, last_written_block |-> Nil]]

ClosedSession == [entry |-> Nil, last_written_block |-> Nil]

NewWritten == [p \in 0..(MaxPos - 1) |-> 0]
NewLog == [ok |-> TRUE, k |-> 0]
DeadLog == [ok |-> FALSE, k |-> 0]

\* The histories of the entries es are given up.
Forget(es) ==
    /\ written' = [i \in DOMAIN written |->
                     IF i \in es THEN NewWritten ELSE written[i]]
    /\ wlog' = [i \in DOMAIN wlog |-> IF i \in es THEN DeadLog ELSE wlog[i]]

\* A directory update that stamps the change time only.
TouchDirCtimeOnly(ent, d) == [ent EXCEPT ![d].ctime = Time]

\* The parent directory's timestamps set by create, mkdir, symlink and rename.
TouchDir(ent, d) == [ent EXCEPT ![d].ctime = Time, ![d].mtime = Time]

\* The call completed last, as far as a following call on path looks back at
\* it: its operation and result when it was made on the same path.
PrevOn(path) ==
    IF "path" \in DOMAIN last /\ last.path = path
    THEN [op |-> last.op, ret |-> last.ret,
          size |-> IF last.op = "truncate" THEN last.size ELSE 0]
    ELSE NoOp

\* The file type bits of st_mode.
S_IFDIR == "S_IFDIR"
S_IFREG == "S_IFREG"
S_IFLNK == "S_IFLNK"

\* The struct stat vram_getattr fills in for entry x.
Stat(x) ==
    [kind |-> IF x.dir THEN S_IFDIR
              ELSE IF Len(x.target) = 0 THEN S_IFREG ELSE S_IFLNK,
     mode |-> IF x.dir \/ Len(x.target) = 0 THEN x.mode ELSE LinkMode,
     nlink |-> IF x.dir THEN 2 ELSE 1,
     size |-> x.size, atime |-> x.atime, mtime |-> x.mtime, ctime |-> x.ctime]

\* vram_getattr
vram_getattr(t, path) ==
    /\ Idle(t)
    /\ LET rec == [op |-> "getattr", t |-> t, path |-> path, prev |-> PrevOn(path)]
       IN  \E f \in {IndexFind(entry, path, TypeAll)} :
           IF f.err # 0 THEN Fail(rec @@ [ret |-> f.err])
           ELSE Fail(rec @@ [ret |-> 0, entry |-> f.entry, stat |-> Stat(entry[f.entry])])

RECURSIVE Listing(_, _)
\* The names the loop of vram_readdir hands to the filler, one per element
\* of the children map ch of ent: pair.second->name.  The order of an
\* unordered_map is not specified; here it is one fixed order.
Listing(ent, ch) ==
    IF DOMAIN ch = {} THEN <<>>
    ELSE LET n == CHOOSE x \in DOMAIN ch : TRUE
         IN  <<ent[ch[n]].name>> \o Listing(ent, EraseChild(ch, n))

\* A readdir that leaves the timestamps of the directory alone.
vram_readdirNoStamp(t, path) ==
    /\ Idle(t)
    /\ LET rec == [op |-> "readdir", t |-> t, path |-> path]
       IN  \E f \in {IndexFind(entry, path, {TDir})} :
           IF f.err # 0 THEN Fail(rec @@ [ret |-> f.err])
           ELSE Fail(rec @@ [ret |-> 0, entry |-> f.entry,
                             names |-> <<".", "..">> \o
                                       Listing(entry, entry[f.entry].children)])

\* vram_readdir: names is what the filler was handed, call by call.
vram_readdir(t, path) ==
    /\ Idle(t)
    /\ LET rec == [op |-> "readdir", t |-> t, path |-> path]
       IN  \E f \in {IndexFind(entry, path, {TDir})} :
           IF f.err # 0 THEN Fail(rec @@ [ret |-> f.err])
           ELSE /\ last' = rec @@ [ret |-> 0, entry |-> f.entry,
                                   names |-> <<".", "..">> \o
                                             Listing(entry, entry[f.entry].children)]
                /\ entry' = [entry EXCEPT ![f.entry].ctime = Time,
                                          ![f.entry].atime = Time]
                /\ MemUnchanged
                /\ Fixed
                /\ UNCHANGED <<fslock, rd, now, crashed, written, wlog>>

\* vram_readlink: the target copied into the caller's buffer.
vram_readlink(t, path) ==
    /\ Idle(t)
    /\ LET rec == [op |-> "readlink", t |-> t, path |-> path]
       IN  \E f \in {IndexFind(entry, path, {TLink})} :
           IF f.err # 0 THEN Fail(rec @@ [ret |-> f.err])
           ELSE Fail(rec @@ [ret |-> 0, entry |-> f.entry,
                             target |-> entry[f.entry].target])

\* vram_chmod
vram_chmod(t, path, mode) ==
    /\ Idle(t)
    /\ LET rec == [op |-> "chmod", t |-> t, path |-> path, mode |-> mode]
       IN  \E f \in {IndexFind(entry, path, {TFile, TDir})} :
           IF f.err # 0 THEN Fail(rec @@ [ret |-> f.err])
           ELSE /\ last' = rec @@ [ret |-> 0, entry |-> f.entry]
                /\ entry' = [entry EXCEPT ![f.entry].mode = mode,
                                          ![f.entry].ctime = Time]
                /\ MemUnchanged
                /\ Fixed
                /\ UNCHANGED <<fslock, rd, now, crashed, written, wlog>>

\* vram_utimens: tv[0] and tv[1] are stored as they are given.
vram_utimens(t, path, tv0, tv1) ==
    /\ Idle(t)
    /\ LET rec == [op |-> "utimens", t |-> t, path |-> path,
                   atime |-> tv0, mtime |-> tv1]
       IN  \E f \in {IndexFind(entry, path, {TFile, TDir})} :
           IF f.err # 0 THEN Fail(rec @@ [ret |-> f.err])
           ELSE /\ last' = rec @@ [ret |-> 0, entry |-> f.entry]
                /\ entry' = [entry EXCEPT ![f.entry].atime = tv0,
                                          ![f.entry].mtime = tv1,
                                          ![f.entry].ctime = Time]
                /\ MemUnchanged
                /\ Fixed
                /\ UNCHANGED <<fslock, rd, now, crashed, written, wlog>>

\* A create that does not look whether the path is taken.
vram_createNoCheck(t, path) ==
    /\ Idle(t)
    /\ LET rec == [op |-> "create", t |-> t, path |-> path, after |-> "none"]
       IN  \E d \in {IndexFind(entry, SplitDir(path), {TDir})} :
           IF d.err # 0 THEN Fail(rec @@ [ret |-> d.err])
           ELSE /\ FreeId(entry) # Nil
                /\ FreeSession # Nil
                /\ entry' = [MakeEntry(TouchDir(entry, d.entry), d.entry, SplitFile(path))
                               EXCEPT ![FreeId(entry)].mode = DEFAULT_FILE_MODE,
                                      ![FreeId(entry)].size = 0]
                /\ session' = NewSession(session, FreeSession, FreeId(entry))
                /\ last' = rec @@ [ret |-> 0, entry |-> FreeId(entry), fh |-> FreeSession]
                /\ Fixed
                /\ UNCHANGED <<file_blocks, pool, live, dirty, buf, queue,
                               fslock, rd, now, crashed, written, wlog>>

\* vram_create
vram_create(t, path) ==
    /\ Idle(t)
    /\ LET rec == [op |-> "create", t |-> t, path |-> path,
                   after |-> IF PrevOn(path).op = "unlink" /\ PrevOn(path).ret = 0
                             THEN "unlink" ELSE "none"]
       IN  \E f \in {IndexFind(entry, path, TypeAll)},
              d \in {IndexFind(entry, SplitDir(path), {TDir})} :
           IF f.err = 0 THEN Fail(rec @@ [ret |-> -EEXIST])
           ELSE IF d.err # 0 THEN Fail(rec @@ [ret |-> d.err])
           ELSE /\ FreeId(entry) # Nil
                /\ FreeSession # Nil
                /\ LET id == FreeId(entry)
                       e1 == MakeEntry(TouchDir(entry, d.entry), d.entry, SplitFile(path))
                   IN  /\ entry' = [e1 EXCEPT ![id].mode = DEFAULT_FILE_MODE,
                                              ![id].size = 0]
                       /\ session' = NewSession(session, FreeSession, id)
                       /\ last' = rec @@ [ret |-> 0, entry |-> id, fh |-> FreeSession]
                /\ written' = [written EXCEPT ![FreeId(entry)] = NewWritten]
                /\ wlog' = [wlog EXCEPT ![FreeId(entry)] = NewLog]
                /\ Fixed
                /\ UNCHANGED <<file_blocks, pool, live, dirty, buf, queue,
                               fslock, rd, now, crashed>>

\* A mkdir that does not look whether the path is taken.
vram_mkdirNoCheck(t, path) ==
    /\ Idle(t)
    /\ LET rec == [op |-> "mkdir", t |-> t, path |-> path]
       IN  \E d \in {IndexFind(entry, SplitDir(path), {TDir})} :
           IF d.err # 0 THEN Fail(rec @@ [ret |-> d.err])
           ELSE /\ FreeId(entry) # Nil
                /\ entry' = [MakeEntry(TouchDir(entry, d.entry), d.entry, SplitFile(path))
                               EXCEPT ![FreeId(entry)].dir = TRUE,
                                      ![FreeId(entry)].mode = DEFAULT_DIR_MODE]
                /\ last' = rec @@ [ret |-> 0, entry |-> FreeId(entry)]
                /\ MemUnchanged
                /\ Fixed
                /\ UNCHANGED <<fslock, rd, now, crashed, written, wlog>>

\* vram_mkdir
vram_mkdir(t, path) ==
    /\ Idle(t)
    /\ LET rec == [op |-> "mkdir", t |-> t, path |-> path]
       IN  \E f \in {IndexFind(entry, path, TypeAll)},
              d \in {IndexFind(entry, SplitDir(path), {TDir})} :
           IF f.err = 0 THEN Fail(rec @@ [ret |-> -EEXIST])
           ELSE IF d.err # 0 THEN Fail(rec @@ [ret |-> d.err])
           ELSE /\ FreeId(entry) # Nil
                /\ LET id == FreeId(entry)
                       e1 == MakeEntry(TouchDir(entry, d.entry), d.entry, SplitFile(path))
                   IN  /\ entry' = [e1 EXCEPT ![id].dir = TRUE,
                                              ![id].mode = DEFAULT_DIR_MODE]
                       /\ last' = rec @@ [ret |-> 0, entry |-> id]
                /\ UNCHANGED <<written, wlog>>
                /\ MemUnchanged
                /\ Fixed
                /\ UNCHANGED <<fslock, rd, now, crashed>>

\* vram_symlink
vram_symlink(t, target, path) ==
    /\ Idle(t)
    /\ LET rec == [op |-> "symlink", t |-> t, path |-> path, target |-> target]
       IN  \E f \in {IndexFind(entry, path, TypeAll)},
              d \in {IndexFind(entry, SplitDir(path), {TDir})} :
           IF f.err = 0 THEN Fail(rec @@ [ret |-> -EEXIST])
           ELSE IF d.err # 0 THEN Fail(rec @@ [ret |-> d.err])
           ELSE /\ FreeId(entry) # Nil
                /\ LET id == FreeId(entry)
                       e1 == MakeEntry(TouchDir(entry, d.entry), d.entry, SplitFile(path))
                   IN  /\ entry' = [e1 EXCEPT ![id].target = target,
                                              ![id].size = Len(target)]
                       /\ last' = rec @@ [ret |-> 0, entry |-> id]
                /\ UNCHANGED <<written, wlog>>
                /\ MemUnchanged
                /\ Fixed
                /\ UNCHANGED <<fslock, rd, now, crashed>>

\* The state after delete_entry(e) returned: x is DeleteEntry's result.
Deleted(rec, x) ==
    IF x.crash THEN Crash
    ELSE /\ entry' = Reap(x.ent, x.m)
         /\ Commit(x.m)
         /\ last' = rec @@ [ret |-> 0]
         /\ Forget({rec.entry})
         /\ Fixed
         /\ UNCHANGED <<fslock, rd, now, crashed>>

\* vram_unlink
vram_unlink(t, path) ==
    /\ Idle(t)
    /\ LET rec == [op |-> "unlink", t |-> t, path |-> path]
       IN  \E f \in {IndexFind(entry, path, {TLink, TFile})} :
           IF f.err # 0 THEN Fail(rec @@ [ret |-> f.err])
           ELSE \E x \in {DeleteEntry(entry, Mem, f.entry)} :
                    Deleted(rec @@ [entry |-> f.entry], x)

\* An rmdir that removes the directory before it finds it is not empty.
vram_rmdirLateCheck(t, path) ==
    /\ Idle(t)
    /\ LET rec == [op |-> "rmdir", t |-> t, path |-> path]
       IN  \E f \in {IndexFind(entry, path, {TDir})} :
           IF f.err # 0 THEN Fail(rec @@ [ret |-> f.err])
           ELSE \E x \in {DeleteEntry(entry, Mem, f.entry)} :
                    IF x.crash THEN Crash
                    ELSE /\ entry' = Reap(x.ent, x.m)
                         /\ Commit(x.m)
                         /\ last' = rec @@ [entry |-> f.entry,
                                            ret |-> IF DOMAIN entry[f.entry].children # {}
                                                    THEN -ENOTEMPTY ELSE 0]
                         /\ Forget({f.entry})
                         /\ Fixed
                         /\ UNCHANGED <<fslock, rd, now, crashed>>

\* An rmdir that does not look whether the directory is empty.
vram_rmdirForce(t, path) ==
    /\ Idle(t)
    /\ LET rec == [op |-> "rmdir", t |-> t, path |-> path]
       IN  \E f \in {IndexFind(entry, path, {TDir})} :
           IF f.err # 0 THEN Fail(rec @@ [ret |-> f.err])
           ELSE \E x \in {DeleteEntry(entry, Mem, f.entry)} :
                    Deleted(rec @@ [entry |-> f.entry], x)

\* vram_rmdir
vram_rmdir(t, path) ==
    /\ Idle(t)
    /\ LET rec == [op |-> "rmdir", t |-> t, path |-> path]
       IN  \E f \in {IndexFind(entry, path, {TDir})} :
           IF f.err # 0 THEN Fail(rec @@ [ret |-> f.err])
           ELSE IF DOMAIN entry[f.entry].children # {}
           THEN Fail(rec @@ [ret |-> -ENOTEMPTY])
           ELSE \E x \in {DeleteEntry(entry, Mem, f.entry)} :
                    Deleted(rec @@ [entry |-> f.entry], x)

\* The byte a read hands back for position p of file e in the state
\* (fb, dr, bf): get_block, then block::read or the zero fill of a hole.
ByteAtIn(fb, dr, bf, e, p) ==
    LET b == GetBlock(fb, e, BlockStart(p))
    IN  IF b = Nil THEN 0 ELSE BlockReadIn(dr, bf, b, p - BlockStart(p), 1)[1]

\* The same in the current state.
ByteAt(e, p) == ByteAtIn(file_blocks, dirty, buf, e, p)

\* The bytes of file e below its size, as a read of the whole file returns
\* them in the state (ent, fb, dr, bf).
ContentIn(ent, fb, dr, bf, e) ==
    IF ActualType(ent[e]) = TFile
    THEN [i \in 1..ent[e].size |-> ByteAtIn(fb, dr, bf, e, i - 1)]
    ELSE <<>>

\* The same in the current state.
Content(e) == ContentIn(entry, file_blocks, dirty, buf, e)

\* The keys file_blocks holds for entry e.
BlocksOf(fb, e) == {k \in DOMAIN fb : k[1] = e}

\* vram_rename
vram_rename(t, path, new_path) ==
    /\ Idle(t)
    /\ LET rec == [op |-> "rename", t |-> t, path |-> path, new_path |-> new_path]
       IN  \E f \in {IndexFind(entry, path, TypeAll)},
              d \in {IndexFind(entry, SplitDir(new_path), {TDir})} :
           IF f.err # 0 THEN Fail(rec @@ [ret |-> f.err])
           ELSE IF d.err # 0 THEN Fail(rec @@ [ret |-> d.err])
           ELSE \E e1 \in {TouchDir(entry, d.entry)} :
                \E dest \in {IndexFind(e1, new_path, TypeAll)} :
                \E x \in {IF dest.err = 0
                          THEN DeleteEntry(e1, Mem, dest.entry)
                          ELSE [ent |-> e1, m |-> Mem, crash |-> FALSE]} :
                    IF x.crash \/ x.ent[f.entry].parent = Nil THEN Crash
                    ELSE /\ entry' = Reap([MoveEntry(x.ent, f.entry, d.entry,
                                                      SplitFile(new_path))
                                             EXCEPT ![f.entry].ctime = Time], x.m)
                         /\ Commit(x.m)
                         /\ last' = rec @@ [ret |-> 0, entry |-> f.entry,
                                            dest |-> IF dest.err = 0
                                                     THEN dest.entry ELSE Nil]
                         /\ Forget({f.entry} \cup
                                   (IF dest.err = 0 THEN {dest.entry} ELSE {}))
                         /\ Fixed
                         /\ UNCHANGED <<fslock, rd, now, crashed>>

\* vram_open
vram_open(t, path) ==
    /\ Idle(t)
    /\ LET rec == [op |-> "open", t |-> t, path |-> path]
       IN  \E f \in {IndexFind(entry, path, {TFile})} :
           IF f.err # 0 THEN Fail(rec @@ [ret |-> f.err])
           ELSE /\ FreeSession # Nil
                /\ session' = NewSession(session, FreeSession, f.entry)
                /\ last' = rec @@ [ret |-> 0, entry |-> f.entry, fh |-> FreeSession]
                /\ Fixed
                /\ UNCHANGED <<entry, file_blocks, pool, live, dirty, buf, queue,
                               fslock, rd, now, crashed, written, wlog>>

\* vram_release: delete the file_session, and with it its last_written_block.
vram_release(t, s) ==
    /\ Idle(t)
    /\ session[s].entry # Nil
    /\ \A u \in Threads : rd[u].pc # "idle" => rd[u].s # s
    /\ \E m2 \in {Unref([Mem EXCEPT !.sess[s] = ClosedSession],
                          session[s].last_written_block)} :
           /\ Commit(m2)
           /\ entry' = Reap(entry, m2)
    /\ last' = [op |-> "release", t |-> t, fh |-> s, entry |-> session[s].entry,
                ret |-> 0]
    /\ Fixed
    /\ UNCHANGED <<fslock, rd, now, crashed, written, wlog>>

\* vram_truncate
vram_truncate(t, path, size) ==
    /\ Idle(t)
    /\ LET rec == [op |-> "truncate", t |-> t, path |-> path, size |-> size]
       IN  \E f \in {IndexFind(entry, path, {TFile})} :
           IF f.err # 0 THEN Fail(rec @@ [ret |-> f.err])
           ELSE \E x \in {SetFileSize(entry, Mem, f.entry, size)} :
                    /\ entry' = [x.ent EXCEPT ![f.entry].ctime = Time,
                                              ![f.entry].mtime = Time]
                    /\ Commit(x.m)
                    /\ last' = rec @@ [ret |-> 0, entry |-> f.entry]
                    /\ Forget({f.entry})
                    /\ Fixed
                    /\ UNCHANGED <<fslock, rd, now, crashed>>

\* A walk that returns after the first slice as if it had done them all.
WriteLoopOneSlice(m, s, e, off, end_pos, src) ==
    IF ~(off < end_pos) THEN [m |-> m, off |-> off, slices |-> <<>>]
    ELSE LET block_start == BlockStart(off)
             block_off == off - block_start
             write_size == Min(BlockSize - block_off, end_pos - off)
             g == GetBlock(m.fb, e, block_start)
             c == IF g # Nil THEN [m |-> m, block |-> g]
                  ELSE CreateBlock(m, e, block_start)
         IN  IF c.block = Nil THEN [m |-> m, off |-> off, slices |-> <<>>]
             ELSE LET bytes == [i \in 1..write_size |-> src.data[off - src.off0 + i]]
                      m1 == BlockWrite(c.m, c.block, block_off, write_size, bytes)
                      m2 == [m1 EXCEPT !.sess[s].last_written_block = c.block]
                      m3 == Unref(m2, m1.sess[s].last_written_block)
                  IN  [m |-> m3, off |-> end_pos,
                       slices |-> <<[block_start |-> block_start,
                                     block_off |-> block_off,
                                     size |-> write_size]>>]

RECURSIVE WriteLoop(_, _, _, _, _, _)
\* A walk whose slices are a block long wherever in the block they start.
WriteLoopWide(m, s, e, off, end_pos, src) ==
    IF ~(off < end_pos) THEN [m |-> m, off |-> off, slices |-> <<>>]
    ELSE LET block_start == BlockStart(off)
             block_off == off - block_start
             write_size == Min(BlockSize, end_pos - off)
             g == GetBlock(m.fb, e, block_start)
             c == IF g # Nil THEN [m |-> m, block |-> g]
                  ELSE CreateBlock(m, e, block_start)
         IN  IF c.block = Nil THEN [m |-> m, off |-> off, slices |-> <<>>]
             ELSE LET bytes == [i \in 1..write_size |-> src.data[off - src.off0 + i]]
                      m1 == BlockWrite(c.m, c.block, block_off, write_size, bytes)
                      m2 == [m1 EXCEPT !.sess[s].last_written_block = c.block]
                      m3 == Unref(m2, m1.sess[s].last_written_block)
                      r == WriteLoop(m3, s, e, off + write_size, end_pos, src)
                  IN  [r EXCEPT !.slices = <<[block_start |-> block_start,
                                                block_off |-> block_off,
                                                size |-> write_size]>> \o @]

\* The loop of vram_write from offset off on; src is the caller's buffer
\* [off0, data].  Yields the memory state, the offset the walk stopped at
\* and the slices handed to block::write.
WriteLoop(m, s, e, off, end_pos, src) ==
    IF ~(off < end_pos) THEN [m |-> m, off |-> off, slices |-> <<>>]
    ELSE LET block_start == BlockStart(off)
             block_off == off - block_start
             write_size == Min(BlockSize - block_off, end_pos - off)
             g == GetBlock(m.fb, e, block_start)
             c == IF g # Nil THEN [m |-> m, block |-> g]
                  ELSE CreateBlock(m, e, block_start)
         IN  IF c.block = Nil THEN [m |-> m, off |-> off, slices |-> <<>>]
             ELSE LET bytes == [i \in 1..write_size |-> src.data[off - src.off0 + i]]
                      m1 == BlockWrite(c.m, c.block, block_off, write_size, bytes)
                      m2 == [m1 EXCEPT !.sess[s].last_written_block = c.block]
                      m3 == Unref(m2, m1.sess[s].last_written_block)
                      r == WriteLoop(m3, s, e, off + write_size, end_pos, src)
                  IN  [r EXCEPT !.slices = <<[block_start |-> block_start,
                                                block_off |-> block_off,
                                                size |-> write_size]>> \o @]

\* A return value that reports the bytes stored before the pool ran out.
WriteRetShort(off, end_pos, total_write) == total_write - (end_pos - off)

\* The value vram_write returns when the walk stopped at off.
WriteRet(off, end_pos, total_write) ==
    IF off < end_pos THEN -ENOSPC ELSE total_write

\* A write that sets the size to the offset its walk stopped at.
WriteSizeStop(size, off) == off

\* A write that never grows the file.
WriteSizeKept(size, off) == size

\* The file size after a write whose walk stopped at off.
WriteSize(size, off) == IF size < off THEN off ELSE size

\* Whether a Block constructed on the way from the block map fb0 to fb1 took
\* a buffer that held a nonzero byte (in the buffer contents bf0).
TookUsedBuffer(fb0, fb1, bf0) ==
    \E k \in DOMAIN fb1 \ DOMAIN fb0 : \E i \in 0..(BlockSize - 1) : bf0[fb1[k]][i] # 0

\* vram_write
vram_write(t, s, off, n, v) ==
    /\ Idle(t)
    /\ session[s].entry # Nil
    /\ \E x \in {WriteLoop(Mem, s, session[s].entry, off, off + n,
                            [off0 |-> off, data |-> Payload(n, v)])} :
       LET e == session[s].entry
           data == Payload(n, v)
           end_pos == off + n
           ret == WriteRet(x.off, end_pos, n)
           tracked == /\ ret = n
                      /\ wlog[e].ok
                      /\ wlog[e].k < 2
                      /\ \A p \in off..(off + n - 1) : written[e][p] = 0
       IN  /\ entry' = [entry EXCEPT ![e].size = WriteSize(@, x.off),
                                     ![e].ctime = Time, ![e].mtime = Time]
           /\ Commit(x.m)
           /\ last' = [op |-> "write", t |-> t, fh |-> s, entry |-> e, off |-> off,
                       n |-> n, data |-> data, ret |-> ret, stop |-> x.off,
                       slices |-> x.slices,
                       used |-> TookUsedBuffer(file_blocks, x.m.fb, buf)]
           /\ IF tracked
              THEN /\ written' = [written EXCEPT ![e] =
                                    [p \in 0..(MaxPos - 1) |->
                                        IF p >= off /\ p < off + n
                                        THEN data[p - off + 1] ELSE @[p]]]
                   /\ wlog' = [wlog EXCEPT ![e].k = @ + 1]
              ELSE Forget({e})
    /\ Fixed
    /\ UNCHANGED <<fslock, rd, now, crashed>>

(***************************************************************************)
(* vram_read.  It gives up fslock around the transfer of every slice, so   *)
(* it is four steps per slice: ReadStart or ReadRelock (holding the lock:  *)
(* look the block up), ReadUnlock, ReadTransfer (lock free) and ReadRelock *)
(* (lock again, advance, next lookup or return).                           *)
(***************************************************************************)
\* A read that does not clamp the request to the end of the file.
ReadSizeUnclamped(file_size, off, size) == size

\* size = std::min(file_size - off, size), for off < file_size
ReadSize(file_size, off, size) == Min(file_size - off, size)

\* The locals of the loop body for the slice at off (size: bytes still to read).
Slice(e, off, size) ==
    [block |-> GetBlock(file_blocks, e, BlockStart(off)),
     block_off |-> off - BlockStart(off),
     read_size |-> Min(BlockSize - (off - BlockStart(off)), size)]

\* The memset of a slice without a block.
HoleFill(read_size) == [i \in 1..read_size |-> 0]

\* The record of a read that returned ret with the bytes data; prev is the
\* call completed last before the read was entered, kept when it is a write
\* of the same range through the same session.
ReadRec(t, s, e, off, n, ret, data, prev) ==
    [op |-> "read", t |-> t, fh |-> s, entry |-> e, off |-> off, n |-> n,
     ret |-> ret, data |-> data,
     prev |-> IF prev.op = "write" /\ prev.fh = s /\ prev.off = off /\ prev.n = n
              THEN prev ELSE NoOp]

\* The queue after block::read of Block b returned: enqueueReadBuffer is
\* blocking and the queue in-order, so every write enqueued before is
\* complete; a dirty Block is not read from the device.
AfterRead(q, dr, b) == IF dr[b] THEN q ELSE <<>>

\* Whether the loop of vram_read over [off, end_pos) reads from the device.
ReadsDevice(e, off, end_pos) ==
    \E p \in off..(end_pos - 1) :
        /\ GetBlock(file_blocks, e, BlockStart(p)) # Nil
        /\ ~dirty[GetBlock(file_blocks, e, BlockStart(p))]

RECURSIVE ReadLoop(_, _, _)
\* The loop of vram_read from off on when no other thread runs in between:
\* the bytes of the slices, one after the other.
ReadLoop(e, off, end_pos) ==
    IF ~(off < end_pos) THEN <<>>
    ELSE LET sl == Slice(e, off, end_pos - off)
             chunk == IF sl.block # Nil
                      THEN BlockRead(sl.block, sl.block_off, sl.read_size)
                      ELSE HoleFill(sl.read_size)
         IN  chunk \o ReadLoop(e, off + sl.read_size, end_pos)

\* vram_read called while no other thread calls into the facade: the lock it
\* gives up around each transfer is taken by nobody, and the call is one step.
vram_read(t, s, off, n) ==
    /\ Idle(t)
    /\ session[s].entry # Nil
    /\ LET e == session[s].entry
           file_size == entry[e].size
           size == ReadSize(file_size, off, n)
       IN  IF off >= file_size
           THEN /\ last' = ReadRec(t, s, e, off, n, 0, <<>>, last)
                /\ UNCHANGED <<entry, queue>>
           ELSE /\ last' = ReadRec(t, s, e, off, n, size,
                                   ReadLoop(e, off, off + size), last)
                /\ entry' = [entry EXCEPT ![e].ctime = Time, ![e].atime = Time]
                /\ queue' = IF ReadsDevice(e, off, off + size) THEN <<>> ELSE queue
    /\ UNCHANGED <<file_blocks, pool, live, dirty, buf, session>>
    /\ Fixed
    /\ UNCHANGED <<fslock, rd, now, crashed, written, wlog>>

\* Entry into vram_read up to the first unlock, or to an early return.
ReadStart(t, s, off, n) ==
    /\ Idle(t)
    /\ session[s].entry # Nil
    /\ LET e == session[s].entry
           file_size == entry[e].size
           size == ReadSize(file_size, off, n)
       IN  IF off >= file_size
           THEN /\ last' = ReadRec(t, s, e, off, n, 0, <<>>, last)
                /\ UNCHANGED <<entry, fslock, rd>>
           ELSE IF ~(off < off + size)
           THEN /\ last' = ReadRec(t, s, e, off, n, size, <<>>, last)
                /\ entry' = [entry EXCEPT ![e].ctime = Time, ![e].atime = Time]
                /\ UNCHANGED <<fslock, rd>>
           ELSE /\ rd' = [rd EXCEPT ![t] =
                            [pc |-> "locked", s |-> s, e |-> e, off |-> off,
                             size |-> size, end_pos |-> off + size,
                             total_read |-> size, data |-> <<>>,
                             req_off |-> off, req_n |-> n,
                             expect |-> ReadLoop(e, off, off + size)]
                            @@ Slice(e, off, size)]
                /\ fslock' = t
                /\ UNCHANGED <<entry, last>>
    /\ MemUnchanged
    /\ Fixed
    /\ UNCHANGED <<now, crashed, written, wlog>>

\* A read that starts the transfer without giving up the lock.
ReadUnlockKeepLock(t) ==
    /\ rd[t].pc = "locked"
    /\ fslock = t
    /\ rd' = [rd EXCEPT ![t].pc = "xfer"]
    /\ MemUnchanged
    /\ Fixed
    /\ UNCHANGED <<entry, fslock, now, crashed, last, written, wlog>>

\* fslock.unlock() before the transfer.
ReadUnlock(t) ==
    /\ rd[t].pc = "locked"
    /\ fslock = t
    /\ rd' = [rd EXCEPT ![t].pc = "xfer"]
    /\ fslock' = Free
    /\ MemUnchanged
    /\ Fixed
    /\ UNCHANGED <<entry, now, crashed, last, written, wlog>>

\* block.read of the slice, or the memset for a hole, without the lock.
ReadTransfer(t) ==
    /\ rd[t].pc = "xfer"
    /\ ~crashed
    /\ LET r == rd[t]
           chunk == IF r.block # Nil
                    THEN BlockRead(r.block, r.block_off, r.read_size)
                    ELSE HoleFill(r.read_size)
       IN  /\ rd' = [rd EXCEPT ![t].pc = "relock", ![t].data = r.data \o chunk]
           /\ queue' = IF r.block # Nil THEN AfterRead(queue, dirty, r.block)
                       ELSE queue
    /\ UNCHANGED <<file_blocks, pool, live, dirty, buf, session>>
    /\ Fixed
    /\ UNCHANGED <<entry, fslock, now, crashed, last, written, wlog>>

\* The end of a read slice that goes on without waiting for the lock.
ReadRelockNoLock(t) ==
    /\ rd[t].pc = "relock"
    /\ ~crashed
    /\ LET r == rd[t]
           off == r.off + r.read_size
           size == r.size - r.read_size
           gone == [Mem EXCEPT !.rd[t] = IdleRead]
       IN  /\ Commit(Unref(gone, r.block))
           /\ IF off < r.end_pos
              THEN /\ rd' = [rd EXCEPT ![t] =
                                [pc |-> "locked", s |-> r.s, e |-> r.e, off |-> off,
                                 size |-> size, end_pos |-> r.end_pos,
                                 total_read |-> r.total_read, data |-> r.data,
                                 req_off |-> r.req_off, req_n |-> r.req_n,
                                 expect |-> r.expect]
                                @@ [block |-> GetBlock(Unref(gone, r.block).fb, r.e, BlockStart(off)),
                                    block_off |-> off - BlockStart(off),
                                    read_size |-> Min(BlockSize - (off - BlockStart(off)), size)]]
                   /\ fslock' = t
                   /\ UNCHANGED <<entry, last>>
              ELSE /\ rd' = [rd EXCEPT ![t] = IdleRead]
                   /\ entry' = [entry EXCEPT ![r.e].ctime = Time, ![r.e].atime = Time]
                   /\ last' = ReadRec(t, r.s, r.e, r.req_off, r.req_n,
                                      r.total_read, r.data, NoOp)
                                 @@ [expect |-> r.expect]
                   /\ UNCHANGED fslock
    /\ Fixed
    /\ UNCHANGED <<now, crashed, written, wlog>>

\* fslock.lock() after the transfer, the end of the loop body (the local
\* block goes out of scope), and the next lookup or the return.
ReadRelock(t) ==
    /\ rd[t].pc = "relock"
    /\ ~crashed
    /\ fslock = Free
    /\ LET r == rd[t]
           off == r.off + r.read_size
           size == r.size - r.read_size
           gone == [Mem EXCEPT !.rd[t] = IdleRead]
       IN  /\ Commit(Unref(gone, r.block))
           /\ IF off < r.end_pos
              THEN /\ rd' = [rd EXCEPT ![t] =
                                [pc |-> "locked", s |-> r.s, e |-> r.e, off |-> off,
                                 size |-> size, end_pos |-> r.end_pos,
                                 total_read |-> r.total_read, data |-> r.data,
                                 req_off |-> r.req_off, req_n |-> r.req_n,
                                 expect |-> r.expect]
                                @@ [block |-> GetBlock(Unref(gone, r.block).fb, r.e, BlockStart(off)),
                                    block_off |-> off - BlockStart(off),
                                    read_size |-> Min(BlockSize - (off - BlockStart(off)), size)]]
                   /\ fslock' = t
                   /\ UNCHANGED <<entry, last>>
              ELSE /\ rd' = [rd EXCEPT ![t] = IdleRead]
                   /\ entry' = [entry EXCEPT ![r.e].ctime = Time, ![r.e].atime = Time]
                   /\ last' = ReadRec(t, r.s, r.e, r.req_off, r.req_n,
                                      r.total_read, r.data, NoOp)
                                 @@ [expect |-> r.expect]
                   /\ UNCHANGED fslock
    /\ Fixed
    /\ UNCHANGED <<now, crashed, written, wlog>>

\* block::sync: last_write.wait(); the default event of a session never
\* written through has nothing to wait for.
BlockSync(q, b) == IF b = Nil THEN q ELSE WaitFor(q, b)

\* vram_fsync
vram_fsync(t, s) ==
    /\ Idle(t)
    /\ session[s].entry # Nil
    /\ queue' = BlockSync(queue, session[s].last_written_block)
    /\ last' = [op |-> "fsync", t |-> t, fh |-> s, entry |-> session[s].entry,
                block |-> session[s].last_written_block, ret |-> 0]
    /\ Fixed
    /\ UNCHANGED <<entry, file_blocks, pool, live, dirty, buf, session,
                   fslock, rd, now, crashed, written, wlog>>

\* The device completes the oldest write in the command queue.
DeviceComplete ==
    /\ queue # <<>>
    /\ queue' = Tail(queue)
    /\ Fixed
    /\ UNCHANGED <<entry, file_blocks, pool, live, dirty, buf, session,
                   fslock, rd, now, crashed, last, written, wlog>>

\* The wall clock advances.
Tick ==
    /\ now < MaxClock
    /\ now' = now + 1
    /\ MemUnchanged
    /\ Fixed
    /\ UNCHANGED <<entry, fslock, rd, crashed, last, written, wlog>>

\* The root directory vram_init makes: make_entry(nullptr, ""), a directory.
RootEntry ==
    [alloc |-> TRUE, parent |-> Nil, children |-> EmptyFn, name |-> "",
     dir |-> TRUE, mode |-> 0, size |-> DirSize, atime |-> 0, mtime |-> 0,
     ctime |-> 0, target |-> <<>>]

(***************************************************************************)
(* The state after vram_init and the startup increase_pool: the root       *)
(* directory, PoolBlocks zero-filled buffers on the free-list.             *)
(***************************************************************************)
Init ==
    /\ now = 0
    /\ entry = [e \in Ids |-> IF e = RootId THEN RootEntry ELSE DeadEntry]
    /\ file_blocks = [k \in {} |-> Nil]
    /\ pool = [i \in 1..PoolBlocks |-> i]
    /\ total_blocks = PoolBlocks
    /\ live = {}
    /\ dirty = [b \in Buffers |-> TRUE]
    /\ buf = [b \in Buffers |-> [i \in 0..(BlockSize - 1) |-> 0]]
    /\ queue = <<>>
    /\ session = [s \in Sessions |-> ClosedSession]
    /\ fslock = Free
    /\ rd = [t \in Threads |-> IdleRead]
    /\ crashed = FALSE
    /\ last = NoOp
    /\ written = [e \in Ids |-> NewWritten]
    /\ wlog = [e \in Ids |-> DeadLog]
    /\ caller = [ok |-> FALSE, bytes |-> <<>>]
    /\ copies = [c \in Slots |-> NoCopy]
    /\ cmdq = <<>>
    /\ events = <<>>
    /\ blk = [buffer |-> [i \in 0..(BlockSize - 1) |-> 0], dirty |-> TRUE]
    /\ sent = [want |-> [i \in 0..(BlockSize - 1) |-> 0], err |-> "none"]

\* The callers keep one file open at a time: at most one session is open
\* after the step.
OneAtATime == Cardinality({s \in Sessions : session'[s].entry # Nil}) <= 1

PathA == <<"a">>
PathB == <<"b">>
Patterns == 0..(MaxByte - 1)

\* The pattern that stamps every byte with its position in the file.
Stamp(off) == off % MaxByte

\* The pattern that stamps every byte with the file it is written to.
Owner(s) == session[s].entry % MaxByte

\* The read issued right after a write, with the write's session and range.
ReadBack(t) ==
    /\ last.op = "write"
    /\ vram_read(t, last.fh, last.off, last.n)

\* The read of a whole file.
ReadWhole(t, s) == vram_read(t, s, 0, MaxPos)

(***************************************************************************)
(* Spec: one caller (the calls follow one another) and the data path of    *)
(* the file /a: every write within the first PoolBlocks blocks, followed   *)
(* or not by the read of the same range.                                   *)
(***************************************************************************)
NearPos == PoolBlocks * BlockSize

Next ==
    \E t \in {"t1"} :
        \/ vram_create(t, PathA) /\ OneAtATime
        \/ vram_open(t, PathA) /\ OneAtATime
        \/ vram_unlink(t, PathA)
        \/ \E s \in Sessions : vram_release(t, s)
        \/ \E s \in Sessions, off \in 0..(NearPos - 1) :
              \E n \in 0..(NearPos - off) : vram_write(t, s, off, n, Stamp(off))
        \/ ReadBack(t)

Spec == Init /\ [][Next]_vars

(***************************************************************************)
(* SpecFull: the file /a written at every range of its MaxBlocks blocks,    *)
(* more than the pool holds, and read as a whole.                          *)
(***************************************************************************)
NextFull ==
    \E t \in {"t1"} :
        \/ vram_create(t, PathA) /\ OneAtATime
        \/ \E s \in Sessions, off \in 0..(MaxPos - 1) :
              \E n \in 0..(MaxPos - off) : vram_write(t, s, off, n, Stamp(off))
        \/ \E s \in Sessions : ReadWhole(t, s)

SpecFull == Init /\ [][NextFull]_vars

(***************************************************************************)
(* SpecRead: the file /a made sparse by one-byte writes and truncates, and *)
(* read at every offset, up to and beyond its end.                         *)
(***************************************************************************)
NextRead ==
    \E t \in {"t1"} :
        \/ vram_create(t, PathA) /\ OneAtATime
        \/ \E n \in 0..MaxPos : vram_truncate(t, PathA, n)
        \/ \E s \in Sessions, off \in 0..(MaxPos - 1) :
              vram_write(t, s, off, 1, Stamp(off))
        \/ \E s \in Sessions, off \in 0..MaxPos, n \in {0, 1, BlockSize + 1, MaxPos} :
              vram_read(t, s, off, n)

SpecRead == Init /\ [][NextRead]_vars

(***************************************************************************)
(* SpecFiles: the files /a and /b, created, written (the whole first block, *)
(* the first byte of the second), truncated, renamed onto each other and   *)
(* onto themselves, unlinked and closed.                                   *)
(***************************************************************************)
FilePaths == {PathA, PathB}

NextFiles ==
    \E t \in {"t1"} :
        \/ \E p \in FilePaths : vram_create(t, p) /\ OneAtATime
        \/ \E p \in FilePaths : vram_unlink(t, p)
        \/ \E p \in FilePaths, q \in FilePaths : vram_rename(t, p, q)
        \/ \E p \in FilePaths : vram_truncate(t, p, 0)
        \/ \E s \in Sessions : vram_release(t, s)
        \/ \E s \in Sessions, a \in {<<0, BlockSize>>, <<BlockSize, 1>>} :
              vram_write(t, s, a[1], a[2], Owner(s))

SpecFiles == Init /\ [][NextFiles]_vars

(***************************************************************************)
(* SpecTree: the tree of entries under the names a and b, two levels deep. *)
(***************************************************************************)
TreePaths == {<<n>> : n \in Names} \cup {<<n, m>> : n \in Names, m \in Names}

NextTree ==
    \E t \in {"t1"} :
        \/ \E p \in TreePaths : vram_create(t, p) /\ OneAtATime
        \/ \E p \in TreePaths : vram_mkdir(t, p)
        \/ \E p \in TreePaths, g \in Targets : vram_symlink(t, g, p)
        \/ \E p \in TreePaths : vram_unlink(t, p)
        \/ \E p \in TreePaths : vram_rmdir(t, p)
        \/ \E p \in TreePaths, q \in TreePaths : vram_rename(t, p, q)
        \/ \E s \in Sessions : vram_release(t, s)

SpecTree == Init /\ [][NextTree]_vars

(***************************************************************************)
(* SpecAttr: the file /a created, written in its first and second block,   *)
(* truncated to every size, unlinked, created again and looked at with     *)
(* getattr.                                                                *)
(***************************************************************************)
NextAttr ==
    \E t \in {"t1"} :
        \/ vram_create(t, PathA) /\ OneAtATime
        \/ vram_unlink(t, PathA)
        \/ vram_getattr(t, PathA)
        \/ \E n \in 0..MaxPos : vram_truncate(t, PathA, n)
        \/ \E s \in Sessions : vram_release(t, s)
        \/ \E s \in Sessions, off \in {0, BlockSize} :
              vram_write(t, s, off, 1, Stamp(off))

SpecAttr == Init /\ [][NextAttr]_vars

(***************************************************************************)
(* SpecMeta: the calls that resolve a path, on /a, /a/b and /b, while the  *)
(* clock advances: each of them on a path that is absent, a file, a        *)
(* directory, a symlink, or that runs through a file.                      *)
(***************************************************************************)
MetaPaths == {<<"a">>, <<"a", "b">>, <<"b">>}

NextMeta ==
    \/ Tick
    \/ \E t \in {"t1"} :
        \/ \E p \in MetaPaths : vram_getattr(t, p)
        \/ \E p \in MetaPaths : vram_readdir(t, p)
        \/ \E p \in MetaPaths : vram_create(t, p) /\ OneAtATime
        \/ \E p \in MetaPaths : vram_mkdir(t, p)
        \/ \E p \in MetaPaths, g \in Targets : vram_symlink(t, g, p)
        \/ \E p \in MetaPaths : vram_unlink(t, p)
        \/ \E p \in MetaPaths : vram_rmdir(t, p)
        \/ \E p \in MetaPaths : vram_open(t, p) /\ OneAtATime
        \/ \E p \in MetaPaths : vram_truncate(t, p, 1)
        \/ \E s \in Sessions : vram_release(t, s)

SpecMeta == Init /\ [][NextMeta]_vars

(***************************************************************************)
(* SpecConc: two threads.  Each may create, unlink, look at and close the  *)
(* file /a and make the directory /b; the file is written as a whole while *)
(* nobody reads it, and read as a whole slice by slice, the lock given up  *)
(* around every transfer.                                                  *)
(***************************************************************************)
NoReader == \A u \in Threads : rd[u].pc = "idle"

NextConc ==
    \E t \in Threads :
        \/ vram_create(t, PathA) /\ OneAtATime
        \/ vram_unlink(t, PathA)
        \/ vram_getattr(t, PathA)
        \/ vram_mkdir(t, PathB)
        \/ \E s \in Sessions : vram_release(t, s)
        \/ \E s \in Sessions : NoReader /\ vram_write(t, s, 0, NearPos, Stamp(0))
        \/ \E s \in Sessions : ReadStart(t, s, 0, NearPos)
        \/ ReadUnlock(t)
        \/ ReadTransfer(t)
        \/ ReadRelock(t)

SpecConc == Init /\ [][NextConc]_vars

(***************************************************************************)
(* SpecSync: the file /a held open by up to two sessions, its first two    *)
(* blocks written through either, synced, read and closed, while the       *)
(* device completes the writes in the order they were enqueued.            *)
(***************************************************************************)
NextSync ==
    \/ DeviceComplete
    \/ \E t \in {"t1"} :
        \/ vram_create(t, PathA)
        \/ vram_open(t, PathA)
        \/ \E s \in Sessions : vram_release(t, s)
        \/ \E s \in Sessions, off \in {0, BlockSize} :
              vram_write(t, s, off, BlockSize, Stamp(off))
        \/ \E s \in Sessions : vram_fsync(t, s)
        \/ \E s \in Sessions : ReadWhole(t, s)

SpecSync == Init /\ [][NextSync]_vars

(***************************************************************************)
(* SpecTime: the file /a while the clock advances: written, read,          *)
(* truncated, its mode and its times set, renamed to /b and back, and      *)
(* removed.                                                                *)
(***************************************************************************)
Clock == 0..MaxClock

NextTime ==
    \/ Tick
    \/ \E t \in {"t1"} :
        \/ vram_create(t, PathA) /\ OneAtATime
        \/ vram_chmod(t, PathA, DEFAULT_DIR_MODE)
        \/ \E tv \in Clock : vram_utimens(t, PathA, tv, tv)
        \/ \E p \in FilePaths, q \in FilePaths : p # q /\ vram_rename(t, p, q)
        \/ vram_truncate(t, PathA, 1)
        \/ vram_unlink(t, PathA)
        \/ \E s \in Sessions : vram_write(t, s, 0, 1, Stamp(0))
        \/ \E s \in Sessions : vram_read(t, s, 0, 1)

SpecTime == Init /\ [][NextTime]_vars

(***************************************************************************)
(* SpecDir: the root and the directory /a listed while entries are made    *)
(* in them, moved between them and removed, and the clock advances.        *)
(***************************************************************************)
DirPaths == {<<"a">>, <<"b">>, <<"a", "b">>}

NextDir ==
    \/ Tick
    \/ \E t \in {"t1"} :
        \/ \E p \in {RootPath, PathA} : vram_readdir(t, p)
        \/ \E p \in DirPaths : vram_create(t, p) /\ OneAtATime
        \/ \E p \in DirPaths : vram_mkdir(t, p)
        \/ \E p \in DirPaths, g \in Targets : vram_symlink(t, g, p)
        \/ \E p \in DirPaths : vram_unlink(t, p)
        \/ \E p \in DirPaths : vram_rmdir(t, p)
        \/ \E p \in DirPaths, q \in DirPaths : vram_rename(t, p, q)
        \/ \E s \in Sessions : vram_release(t, s)

SpecDir == Init /\ [][NextDir]_vars

(***************************************************************************)
(* SpecErr: every call that resolves a path, on /a and /a/b, each of them  *)
(* absent, a written file, a directory or a symlink: the calls that        *)
(* succeed and the calls that are refused.                                 *)
(***************************************************************************)
ErrPaths == {<<"a">>, <<"a", "b">>}

NextErr ==
    \E t \in {"t1"} :
        \/ \E p \in ErrPaths : vram_getattr(t, p)
        \/ \E p \in ErrPaths : vram_readlink(t, p)
        \/ \E p \in ErrPaths : vram_chmod(t, p, DEFAULT_DIR_MODE)
        \/ \E p \in ErrPaths : vram_utimens(t, p, 0, 0)
        \/ \E p \in ErrPaths : vram_readdir(t, p)
        \/ \E p \in ErrPaths : vram_create(t, p) /\ OneAtATime
        \/ \E p \in ErrPaths : vram_mkdir(t, p)
        \/ \E p \in ErrPaths, g \in Targets : vram_symlink(t, g, p)
        \/ \E p \in ErrPaths : vram_unlink(t, p)
        \/ \E p \in ErrPaths : vram_rmdir(t, p)
        \/ \E p \in ErrPaths, q \in ErrPaths : vram_rename(t, p, q)
        \/ \E p \in ErrPaths : vram_open(t, p) /\ OneAtATime
        \/ \E p \in ErrPaths : vram_truncate(t, p, 0)
        \/ \E s \in Sessions : vram_release(t, s)
        \/ \E s \in Sessions : vram_write(t, s, 0, 1, Stamp(0))

SpecErr == Init /\ [][NextErr]_vars

(***************************************************************************)
(* block::write seen from the device.  The caller fills or frees its       *)
(* buffer between the calls; the device executes the commands in order and *)
(* reads the bytes of a write when it executes it; the callback set on the *)
(* event of a write runs after the write has completed.                    *)
(***************************************************************************)
Payloads == UNION {[1..n -> 1..MaxByte] : n \in 1..BlockSize}

Zeros == [i \in 0..(BlockSize - 1) |-> 0]

\* The buffer content after size bytes are stored at offset.
Store(mem, offset, size, bytes) ==
    [i \in 0..(BlockSize - 1) |->
        IF i >= offset /\ i < offset + size THEN bytes[i - offset + 1] ELSE mem[i]]

\* The bytes the device finds behind the data pointer of a command when it
\* executes it: those of the caller's buffer or of the data_copy; anything
\* once that memory was freed.
Behind(cmd) ==
    IF cmd.ptr = CallerPtr
    THEN IF caller.ok /\ Len(caller.bytes) >= cmd.size
         THEN {SubSeq(caller.bytes, 1, cmd.size)}
         ELSE [1..cmd.size -> Bytes]
    ELSE IF copies[cmd.ptr].live /\ Len(copies[cmd.ptr].bytes) >= cmd.size
         THEN {SubSeq(copies[cmd.ptr].bytes, 1, cmd.size)}
         ELSE [1..cmd.size -> Bytes]

\* The buffer after the device executed the commands of q, given the bytes
\* it reads for each write (the caller's data for a write without a copy).
RECURSIVE Drain(_, _, _)
Drain(mem, q, data) ==
    IF q = <<>> THEN mem
    ELSE Drain(IF Head(q).kind = "fill" THEN Zeros
               ELSE Store(mem, Head(q).offset, Head(q).size,
                          IF Head(q).ptr = CallerPtr THEN data
                          ELSE copies[Head(q).ptr].bytes),
               Tail(q), data)

\* The callbacks due once the writes of q have completed.
Completed(q) ==
    [i \in 1..Len(SelectSeq(q, LAMBDA c : c.kind = "write" /\ c.ptr # CallerPtr)) |->
        SelectSeq(q, LAMBDA c : c.kind = "write" /\ c.ptr # CallerPtr)[i].ptr]

HostUnchanged ==
    UNCHANGED <<entry, file_blocks, pool, total_blocks, live, dirty, buf, queue,
                session, fslock, rd, now, crashed, last, written, wlog>>

\* The caller puts bytes into its buffer.
CallerFill(bytes) ==
    /\ caller' = [ok |-> TRUE, bytes |-> bytes]
    /\ UNCHANGED <<copies, cmdq, events, blk, sent>>
    /\ HostUnchanged

\* The caller frees its buffer.
CallerFree ==
    /\ caller.ok
    /\ caller' = [ok |-> FALSE, bytes |-> <<>>]
    /\ UNCHANGED <<copies, cmdq, events, blk, sent>>
    /\ HostUnchanged

\* A block::write that hands the caller's buffer to an asynchronous write.
block_writeNoCopy(offset, size, async) ==
    /\ caller.ok
    /\ size = Len(caller.bytes)
    /\ offset + size <= BlockSize
    /\ LET clear == IF blk.dirty /\ size # BlockSize
                     THEN <<[kind |-> "fill"]>> ELSE <<>>
           cmd == [kind |-> "write", offset |-> offset, size |-> size,
                   ptr |-> CallerPtr]
       IN  /\ IF async
              THEN /\ cmdq' = cmdq \o clear \o <<cmd>>
                   /\ events' = events
                   /\ blk' = [blk EXCEPT !.dirty = FALSE]
              ELSE /\ cmdq' = <<>>
                   /\ events' = events \o Completed(cmdq)
                   /\ blk' = [buffer |-> Drain(blk.buffer, cmdq \o clear \o <<cmd>>,
                                               caller.bytes),
                              dirty |-> FALSE]
           /\ copies' = copies
           /\ sent' = [sent EXCEPT !.want =
                          Store(IF clear # <<>> THEN Zeros ELSE @,
                                offset, size, caller.bytes)]
    /\ UNCHANGED caller
    /\ HostUnchanged

\* block::write(offset, size, data, async) on the Block, data being the
\* caller's buffer.  The enqueue is taken to succeed, as block::write takes
\* it (it returns nothing).  A blocking write returns when the device has
\* executed it, and with it every command before it.
block_write(offset, size, async) ==
    /\ caller.ok
    /\ size = Len(caller.bytes)
    /\ offset + size <= BlockSize
    /\ LET clear == IF blk.dirty /\ size # BlockSize
                     THEN <<[kind |-> "fill"]>> ELSE <<>>
       IN  /\ IF async
              THEN \E c \in Slots :
                      /\ ~copies[c].live
                      /\ \A i \in 1..Len(events) : events[i] # c
                      /\ copies' = [copies EXCEPT ![c] =
                                       [live |-> TRUE, bytes |-> caller.bytes]]
                      /\ cmdq' = cmdq \o clear
                                    \o <<[kind |-> "write", offset |-> offset,
                                          size |-> size, ptr |-> c]>>
                      /\ events' = events
                      /\ blk' = [blk EXCEPT !.dirty = FALSE]
              ELSE /\ copies' = copies
                   /\ cmdq' = <<>>
                   /\ events' = events \o Completed(cmdq)
                   /\ blk' = [buffer |->
                                 Drain(blk.buffer,
                                       cmdq \o clear
                                          \o <<[kind |-> "write", offset |-> offset,
                                                size |-> size, ptr |-> CallerPtr]>>,
                                       caller.bytes),
                              dirty |-> FALSE]
           /\ sent' = [sent EXCEPT !.want =
                          Store(IF clear # <<>> THEN Zeros ELSE @,
                                offset, size, caller.bytes)]
    /\ UNCHANGED caller
    /\ HostUnchanged

\* The device executes the command at the head of the queue; a write reads
\* its bytes now, and its event is complete afterwards.
DeviceRun ==
    /\ cmdq # <<>>
    /\ LET cmd == Head(cmdq)
       IN  IF cmd.kind = "fill"
           THEN /\ blk' = [blk EXCEPT !.buffer = Zeros]
                /\ UNCHANGED <<events, sent>>
           ELSE \E bytes \in Behind(cmd) :
                   /\ blk' = [blk EXCEPT !.buffer =
                                 Store(@, cmd.offset, cmd.size, bytes)]
                   /\ events' = Append(events, cmd.ptr)
                   /\ sent' = IF sent.err = "none" /\ cmd.ptr # CallerPtr
                                  /\ ~copies[cmd.ptr].live
                              THEN [sent EXCEPT !.err = "read of freed data"]
                              ELSE sent
    /\ cmdq' = Tail(cmdq)
    /\ UNCHANGED <<caller, copies>>
    /\ HostUnchanged

\* async_write_dealloc, called for a write that has completed: delete [] data.
async_write_dealloc ==
    /\ events # <<>>
    /\ LET data == Head(events)
       IN  IF data = CallerPtr
           THEN /\ caller' = [ok |-> FALSE, bytes |-> <<>>]
                /\ copies' = copies
                /\ sent' = IF sent.err = "none"
                           THEN [sent EXCEPT !.err = "caller's buffer freed"]
                           ELSE sent
           ELSE /\ caller' = caller
                /\ copies' = [copies EXCEPT ![data] = NoCopy]
                /\ sent' = IF sent.err = "none" /\ ~copies[data].live
                           THEN [sent EXCEPT !.err = "double free"]
                           ELSE sent
    /\ events' = Tail(events)
    /\ UNCHANGED <<cmdq, blk>>
    /\ HostUnchanged

NextAsync ==
    \/ \E bytes \in Payloads : CallerFill(bytes)
    \/ CallerFree
    \/ \E offset \in 0..(BlockSize - 1), size \in 1..BlockSize, async \in BOOLEAN :
          block_write(offset, size, async)
    \/ DeviceRun
    \/ async_write_dealloc

SpecAsync == Init /\ [][NextAsync]_vars

(***************************************************************************)
(* SpecShrink: one caller and the file /a, written in its first block or   *)
(* right after it, truncated to any size up to the end of the second       *)
(* block, and read.                                                        *)
(***************************************************************************)
NextShrink ==
    \E t \in {"t1"} :
        \/ vram_create(t, PathA) /\ OneAtATime
        \/ \E n \in 0..NearPos : vram_truncate(t, PathA, n)
        \/ \E s \in Sessions : vram_write(t, s, 0, BlockSize, Stamp(0))
        \/ \E s \in Sessions : vram_write(t, s, BlockSize, 1, Stamp(0))
        \/ \E s \in Sessions : ReadWhole(t, s)

SpecShrink == Init /\ [][NextShrink]_vars

(***************************************************************************)
(* SpecRoot: one caller; the calls that remove or move an entry are made   *)
(* on the root as on /a and /b.                                            *)
(***************************************************************************)
RootPaths == {RootPath, PathA, PathB}

NextRoot ==
    \E t \in {"t1"} :
        \/ \E p \in RootPaths : vram_getattr(t, p)
        \/ \E p \in RootPaths : vram_create(t, p) /\ OneAtATime
        \/ \E p \in RootPaths : vram_mkdir(t, p)
        \/ \E p \in RootPaths : vram_unlink(t, p)
        \/ \E p \in RootPaths : vram_rmdir(t, p)
        \/ \E p \in RootPaths, q \in RootPaths : vram_rename(t, p, q)
        \/ \E s \in Sessions : vram_release(t, s)

SpecRoot == Init /\ [][NextRoot]_vars

(***************************************************************************)
(* SpecLive: two threads; calls that return an error, reads that return    *)
(* early, reads of two slices, writes, and rmdir of the root.  A thread    *)
(* inside read goes on: the transfer of its slice completes, and a thread  *)
(* that waits for the mutex gets it when it is free again and again.       *)
(***************************************************************************)
NextLive ==
    \E t \in Threads :
        \/ vram_create(t, PathA) /\ OneAtATime
        \/ vram_getattr(t, PathB)
        \/ vram_rmdir(t, RootPath)
        \/ vram_truncate(t, PathA, 0)
        \/ \E s \in Sessions : vram_write(t, s, 0, NearPos, Stamp(0))
        \/ \E s \in Sessions, off \in {0, NearPos} : ReadStart(t, s, off, NearPos)
        \/ ReadUnlock(t)
        \/ ReadTransfer(t)
        \/ ReadRelock(t)

SpecLive ==
    /\ Init
    /\ [][NextLive]_vars
    /\ \A t \in Threads :
          /\ WF_vars(ReadUnlock(t))
          /\ WF_vars(ReadTransfer(t))
          /\ SF_vars(ReadRelock(t))

(***************************************************************************)
(* SpecFind: index_find as a function of the tree, the path and the        *)
(* filter.  The calls build the trees with a file, a directory or a        *)
(* symlink at /a and at /a/b; index_find is applied to every path with     *)
(* every filter.                                                           *)
(***************************************************************************)
FindPaths == {RootPath, PathA, <<"a", "b">>}

\* index_find(path, entry, filter), called with the mutex held.
index_find(t, path, filter) ==
    /\ Idle(t)
    /\ \E f \in {IndexFind(entry, path, filter)} :
          last' = [op |-> "find", t |-> t, path |-> path, filter |-> filter,
                   ret |-> f.err, entry |-> f.entry]
    /\ MemUnchanged
    /\ Fixed
    /\ UNCHANGED <<entry, fslock, rd, now, crashed, written, wlog>>

NextFind ==
    \E t \in {"t1"} :
        \/ \E p \in FindPaths : vram_create(t, p) /\ OneAtATime
        \/ \E p \in FindPaths : vram_mkdir(t, p)
        \/ \E p \in FindPaths, g \in Targets : vram_symlink(t, g, p)
        \/ \E s \in Sessions : vram_release(t, s)
        \/ \E p \in FindPaths, filter \in SUBSET TypeAll : index_find(t, p, filter)

SpecFind == Init /\ [][NextFind]_vars

(***************************************************************************)
(* The pool before and during memory::increase_pool.  The device has room  *)
(* for the buffers of Buffers; an allocation or its zero-fill fails when   *)
(* the room is used up, or earlier.                                        *)
(***************************************************************************)
SizeMod == 2 ^ SizeBits
IntMod == 2 ^ IntBits

\* Conversion to size_t.
ToSize(x) == x % SizeMod

\* Conversion to int.
ToInt(x) == LET r == x % IntMod IN IF r >= IntMod \div 2 THEN r - IntMod ELSE r

\* int block_count = 1 + (size - 1) / block::size, computed in size_t.
block_count(size) == ToInt(ToSize(1 + ToSize(size - 1) \div BlockSize))

\* Buffers the device has not handed out.
Unused == Buffers \ ({pool[i] : i \in DOMAIN pool} \cup live)

\* The k smallest members of S in ascending order.
RECURSIVE Smallest(_, _)
Smallest(S, k) ==
    IF k = 0 \/ S = {} THEN <<>>
    ELSE LET b == CHOOSE x \in S : \A y \in S : x <= y
         IN  <<b>> \o Smallest(S \ {b}, k - 1)

pool_size == total_blocks

pool_available == ToInt(Len(pool))

\* memory::increase_pool(size), where the allocation with index cap is the
\* first to fail: every buffer before it is zero-filled and pushed on the
\* pool.
increase_pool(size, cap) ==
    /\ ~crashed
    /\ LET count == block_count(size)
           failed == cap < count
           i == IF failed THEN cap ELSE Max(count, 0)
           new == Smallest(Unused, i)
       IN  /\ pool' = pool \o new
           /\ total_blocks' = total_blocks + i
           /\ buf' = [b \in Buffers |->
                        IF \E j \in DOMAIN new : new[j] = b
                        THEN [o \in 0..(BlockSize - 1) |-> 0] ELSE buf[b]]
           /\ last' = [op |-> "increase_pool", size |-> size, count |-> count,
                       failed |-> failed,
                       ret |-> IF failed THEN ToSize(ToSize(i) * BlockSize)
                               ELSE ToSize(ToSize(count) * BlockSize)]
    /\ UNCHANGED <<entry, file_blocks, live, dirty, queue, session, fslock, rd,
                   now, crashed, written, wlog, caller, copies, cmdq, events,
                   blk, sent>>

\* The state after vram_init: the root directory, an empty pool, device
\* memory with whatever it held before.
InitGrow ==
    /\ now = 0
    /\ entry = [e \in Ids |-> IF e = RootId THEN RootEntry ELSE DeadEntry]
    /\ file_blocks = [k \in {} |-> Nil]
    /\ pool = <<>>
    /\ total_blocks = 0
    /\ live = {}
    /\ dirty = [b \in Buffers |-> TRUE]
    /\ buf \in [Buffers -> [0..(BlockSize - 1) -> {0, MaxByte}]]
    /\ queue = <<>>
    /\ session = [s \in Sessions |-> ClosedSession]
    /\ fslock = Free
    /\ rd = [t \in Threads |-> IdleRead]
    /\ crashed = FALSE
    /\ last = NoOp
    /\ written = [e \in Ids |-> NewWritten]
    /\ wlog = [e \in Ids |-> DeadLog]
    /\ caller = [ok |-> FALSE, bytes |-> <<>>]
    /\ copies = [c \in Slots |-> NoCopy]
    /\ cmdq = <<>>
    /\ events = <<>>
    /\ blk = [buffer |-> [i \in 0..(BlockSize - 1) |-> 0], dirty |-> TRUE]
    /\ sent = [want |-> [i \in 0..(BlockSize - 1) |-> 0], err |-> "none"]

(***************************************************************************)
(* SpecGrow: the pool grown by calls of increase_pool with every size of   *)
(* size_t, while one caller creates, writes and cuts the file /a.          *)
(***************************************************************************)
NextGrow ==
    \/ \E size \in 0..(SizeMod - 1), cap \in 0..PoolBlocks :
          cap <= Cardinality(Unused) /\ increase_pool(size, cap)
    \/ \E t \in {"t1"} :
          \/ vram_create(t, PathA) /\ OneAtATime
          \/ \E s \in Sessions : vram_write(t, s, 0, BlockSize, Stamp(0))
          \/ vram_truncate(t, PathA, 0)

SpecGrow == InitGrow /\ [][NextGrow]_vars

(***************************************************************************)
(* SpecSlice: one caller and the file /a; every write and every read       *)
(* within the first PoolBlocks blocks and one position beyond, the read    *)
(* slice by slice.                                                         *)
(***************************************************************************)
NextSlice ==
    \E t \in {"t1"} :
        \/ vram_create(t, PathA) /\ OneAtATime
        \/ \E s \in Sessions, off \in 0..NearPos :
              \E n \in 0..(NearPos + 1 - off) : vram_write(t, s, off, n, Stamp(0))
        \/ \E s \in Sessions, off \in 0..NearPos :
              \E n \in 0..(NearPos + 1 - off) : ReadStart(t, s, off, n)
        \/ ReadUnlock(t)
        \/ ReadTransfer(t)
        \/ ReadRelock(t)

SpecSlice == Init /\ [][NextSlice]_vars

(***************************************************************************)
(* SpecPool: two threads and the files /a and /b.  While one thread reads  *)
(* /a slice by slice, the other truncates or unlinks it and writes, to /a  *)
(* or to /b, taking blocks from the pool.                                  *)
(***************************************************************************)
NextPool ==
    \E t \in Threads :
        \/ \E p \in FilePaths : vram_create(t, p)
        \/ vram_truncate(t, PathA, 0)
        \/ vram_unlink(t, PathA)
        \/ \E s \in Sessions : vram_release(t, s)
        \/ \E s \in Sessions : vram_write(t, s, 0, BlockSize, Owner(s))
        \/ \E s \in Sessions : ReadStart(t, s, 0, BlockSize)
        \/ ReadUnlock(t)
        \/ ReadTransfer(t)
        \/ ReadRelock(t)

SpecPool == Init /\ [][NextPool]_vars

(***************************************************************************)
(* SpecAtomic: two threads and the file /a.  Writes span two blocks; the   *)
(* other thread stats, truncates, writes or reads the file slice by slice. *)
(***************************************************************************)
NextAtomic ==
    \E t \in Threads :
        \/ vram_create(t, PathA) /\ OneAtATime
        \/ vram_getattr(t, PathA)
        \/ vram_truncate(t, PathA, 0)
        \/ \E s \in Sessions : vram_write(t, s, 0, NearPos, Stamp(0))
        \/ \E s \in Sessions : ReadStart(t, s, 0, NearPos)
        \/ ReadUnlock(t)
        \/ ReadTransfer(t)
        \/ ReadRelock(t)

SpecAtomic == Init /\ [][NextAtomic]_vars

(***************************************************************************)
(* Properties.                                                             *)
(***************************************************************************)
\* The last call was a read that directly followed a write of the same range
\* through the same session, and that write returned its full count.
ReadFollowsWrite ==
    /\ last.op = "read"
    /\ last.prev.op = "write"
    /\ last.prev.ret = last.prev.n

\* C1: when write(off, n, bytes) returns n, the read(off, n) that immediately
\* follows on the same session returns n bytes equal to bytes, whatever came
\* before the write (blocks recycled from an unlinked file included).
C1_ReadAfterWrite ==
    ReadFollowsWrite => /\ last.ret = last.prev.n
                        /\ last.data = last.prev.data

\* A read-back of a write that spans two blocks and took over a used buffer.
C1_Witness ==
    /\ ReadFollowsWrite
    /\ last.prev.n > BlockSize
    /\ last.prev.used
    /\ last.ret = last.prev.n

\* The last call read the whole of a file that, since its creation, was only
\* read and written by two complete writes to disjoint ranges.
WholeReadAfterTwoWrites ==
    /\ last.op = "read"
    /\ last.off = 0
    /\ last.n = MaxPos
    /\ wlog[last.entry].ok
    /\ wlog[last.entry].k = 2

\* C2: after two successful writes to disjoint ranges of a new file, with
\* any reads in between, a read of the whole file returns the bytes of each
\* write at its range and zero at every other position below the file size,
\* also when both ranges lie in one block.
C2_DisjointWrites ==
    WholeReadAfterTwoWrites =>
        /\ last.ret = entry[last.entry].size
        /\ \A p \in 0..(MaxPos - 1) :
              written[last.entry][p] # 0 => p < entry[last.entry].size
        /\ \A i \in 1..last.ret : last.data[i] = written[last.entry][i - 1]

\* Such a read where the two writes went to the same block, with a gap
\* elsewhere in the file.
C2_Witness ==
    /\ WholeReadAfterTwoWrites
    /\ \E b \in 0..(MaxBlocks - 1) :
          \A i \in 0..1 : written[last.entry][b * BlockSize + i] # 0
    /\ \E p \in 0..(MaxPos - 1) :
          p < entry[last.entry].size /\ written[last.entry][p] = 0
    /\ \E i \in 1..last.ret : last.data[i] = 0

\* C3: read(off, n) on a file of size s returns min(n, s - off) bytes when
\* off < s and 0 bytes when off >= s, and every returned byte of a block
\* that is not populated is zero.
C3_ReadSemantics ==
    last.op = "read" =>
        LET s == entry[last.entry].size
        IN  /\ last.ret = IF last.off < s THEN Min(last.n, s - last.off) ELSE 0
            /\ Len(last.data) = last.ret
            /\ \A i \in 1..last.ret :
                  GetBlock(file_blocks, last.entry,
                           BlockStart(last.off + i - 1)) = Nil
                     => last.data[i] = 0

\* A read cut short by the end of the file that crosses from a hole into a
\* populated block.
C3_Witness ==
    /\ last.op = "read"
    /\ last.ret > 0
    /\ last.ret < last.n
    /\ GetBlock(file_blocks, last.entry, BlockStart(last.off)) = Nil
    /\ \E i \in 1..last.ret : last.data[i] # 0

\* The last write stopped for want of a block after storing some bytes.
WriteCutShort ==
    /\ last.op = "write"
    /\ last.off < last.stop
    /\ last.stop < last.off + last.n

\* C4 as stated: when the pool runs out after a write has stored k > 0
\* bytes, the write returns k.
C4_ShortWriteReturnsCount == WriteCutShort => last.ret = last.stop - last.off

\* C4 as amended: a write returns -ENOSPC whenever the pool runs out before
\* the whole request is stored, also when some bytes were already stored,
\* and the full count when every slice got a block.
C4_CutWriteReturnsENOSPC ==
    last.op = "write" =>
        IF last.stop < last.off + last.n
        THEN last.ret = -ENOSPC
        ELSE last.ret = last.n

\* A write that stored a whole block, then found the pool empty and returned
\* -ENOSPC, the stored bytes being in the file.
C4_Witness ==
    /\ WriteCutShort
    /\ last.ret = -ENOSPC
    /\ last.stop - last.off >= BlockSize
    /\ entry[last.entry].size = last.stop
    /\ ByteAt(last.entry, last.off) = last.data[1]

\* Position p lies in the range the write recorded in w stored.
Stored(w, e, p) ==
    /\ w.op = "write"
    /\ w.entry = e
    /\ p >= w.off
    /\ p < w.stop

\* C5: buffers go back to the pool as they are, yet a read never returns a
\* byte a previous owner of the buffer stored: over every step, each byte a
\* file reads back is zero, or the byte it read back before, or a byte this
\* step wrote there; so in a block first written in part, the rest is zero.
C5_NoStaleData ==
    [][\A e \in Ids, p \in 0..(MaxPos - 1) :
          LET a == ByteAt(e, p)
              b == ByteAtIn(file_blocks', dirty', buf', e, p)
          IN  \/ b = 0
              \/ b = a
              \/ Stored(last', e, p) /\ b = last'.data[p - last'.off + 1]]_vars

\* A partial write into a block built on a used buffer, after which the byte
\* next to the written one reads as zero although the buffer held another.
C5_Witness ==
    /\ last.op = "write"
    /\ last.used
    /\ last.n < BlockSize
    /\ last.ret = last.n
    /\ ByteAt(last.entry, last.off + last.n) = 0
    /\ GetBlock(file_blocks, last.entry, BlockStart(last.off + last.n)) # Nil

\* C6: after unlink(p) of a file with an open session the path no longer
\* resolves, and the session still reads the data written before the unlink.
C6_UnlinkWhileOpen ==
    [][(/\ last'.op = "unlink"
        /\ last'.ret = 0
        /\ \E s \in Sessions : session[s].entry = last'.entry)
       => /\ IndexFind(entry', last'.path, TypeAll).err = -ENOENT
          /\ ContentIn(entry', file_blocks', dirty', buf', last'.entry)
                = Content(last'.entry)]_vars

\* C7: after rename(p, q) returns 0 (q may exist, q may be p) the entry at q
\* is the entry that was at p, with the size, mode, atime, mtime and content
\* it had before.
C7_RenamePreserves ==
    [][(last'.op = "rename" /\ last'.ret = 0)
       => LET e == last'.entry
              q == IndexFind(entry', last'.new_path, TypeAll)
          IN  /\ q.err = 0
              /\ q.entry = e
              /\ entry'[e].size = entry[e].size
              /\ entry'[e].mode = entry[e].mode
              /\ entry'[e].atime = entry[e].atime
              /\ entry'[e].mtime = entry[e].mtime
              /\ ContentIn(entry', file_blocks', dirty', buf', e) = Content(e)]_vars

\* C8: rename("/a", "/b") over a written file /b no session has open leaves
\* /a absent, /b with the content of /a, and the pool larger by exactly the
\* blocks /b held.
C8_RenameOverFile ==
    [][(/\ last'.op = "rename"
        /\ last'.ret = 0
        /\ last'.dest # Nil
        /\ last'.dest # last'.entry
        /\ ActualType(entry[last'.entry]) = TFile
        /\ ActualType(entry[last'.dest]) = TFile
        /\ BlocksOf(file_blocks, last'.entry) # {}
        /\ BlocksOf(file_blocks, last'.dest) # {}
        /\ \A s \in Sessions : session[s].entry # last'.dest)
       => /\ IndexFind(entry', last'.path, TypeAll).err = -ENOENT
          /\ IndexFind(entry', last'.new_path, TypeAll).entry = last'.entry
          /\ ContentIn(entry', file_blocks', dirty', buf', last'.entry)
                = Content(last'.entry)
          /\ Len(pool') = Len(pool) + Cardinality(BlocksOf(file_blocks, last'.dest))
          /\ BlocksOf(file_blocks', last'.entry) = BlocksOf(file_blocks, last'.entry)]_vars

\* The Blocks some block_ref refers to.
LiveBlocks == {b \in Buffers : Referenced(Mem, b)}

\* C9: between facade calls, pool_available() plus the number of live Blocks
\* is pool_size(), and pool_size() is what it was at startup.
C9_PoolConservation ==
    /\ Len(pool) + Cardinality(LiveBlocks) = total_blocks
    /\ LiveBlocks = live
    /\ total_blocks = PoolBlocks

\* A call has just handed a buffer back while another Block lives on.
C9_Witness ==
    /\ last.op \in {"unlink", "rename", "truncate", "release"}
    /\ last.ret = 0
    /\ Cardinality(LiveBlocks) = 1
    /\ Len(pool) = PoolBlocks - 1
    /\ \E i \in 0..(BlockSize - 1) : buf[pool[Len(pool)]][i] # 0

RECURSIVE Below(_, _)
\* The entries found by following children maps from the entries in S.
Below(ent, S) ==
    LET T == S \cup UNION {{ent[d].children[n] : n \in DOMAIN ent[d].children} :
                               d \in S}
    IN  IF T = S THEN S ELSE Below(ent, T)

Reachable == Below(entry, {RootId})

\* C10: every entry reachable from the root, the root excepted, is stored in
\* its parent under its name, and in no other directory or under no other
\* name.
C10_TreeConsistency ==
    \A e \in Reachable \ {RootId} :
        LET p == entry[e].parent
        IN  /\ p # Nil
            /\ p \in Reachable
            /\ entry[e].name \in DOMAIN entry[p].children
            /\ entry[p].children[entry[e].name] = e
            /\ \A d \in Ids : \A n \in DOMAIN entry[d].children :
                  entry[d].children[n] = e => d = p /\ n = entry[e].name

\* A rename has just moved an entry into a directory below the root.
C10_Witness ==
    /\ last.op = "rename"
    /\ last.ret = 0
    /\ last.entry \in Reachable
    /\ entry[last.entry].parent # RootId
    /\ Len(last.path) = 1

\* C11: after unlink(p) returned 0, the getattr(p) that follows returns
\* ENOENT, and the create(p) that follows returns 0 and leaves at p a new
\* file of size 0 that holds no block and reads as nothing.
C11_UnlinkThenAbsent ==
    /\ (last.op = "getattr" /\ last.prev.op = "unlink" /\ last.prev.ret = 0)
          => last.ret = -ENOENT
    /\ (last.op = "create" /\ last.after = "unlink")
          => /\ last.ret = 0
             /\ IndexFind(entry, last.path, {TFile}) = [err |-> 0, entry |-> last.entry]
             /\ entry[last.entry].size = 0
             /\ BlocksOf(file_blocks, last.entry) = {}
             /\ Content(last.entry) = <<>>

\* A file created right after the unlink of a written file of the same name,
\* whose bytes are still in a buffer.
C11_Witness ==
    /\ last.op = "create"
    /\ last.after = "unlink"
    /\ last.ret = 0
    /\ \E b \in Buffers : \E i \in 0..(BlockSize - 1) : buf[b][i] # 0

\* The entry found at the path of the call that this step completes, in the
\* state before the step.
Found == IndexFind(entry, last'.path, TypeAll)

\* This step is the facade call op: it is no tick of the clock, and the call
\* it completes is op.
Calls(op) == now' = now /\ last'.op = op

\* C12 as stated: create on a path that holds a file unlinks the file and
\* returns 0 with a new empty file and a new session; on a path that holds a
\* directory it returns EISDIR and changes nothing.
C12_CreateReplacesFile ==
    [][(Calls("create") /\ Found.err = 0)
       => IF ActualType(entry[Found.entry]) = TFile
          THEN /\ last'.ret = 0
               /\ entry'[last'.entry].size = 0
               /\ session'[last'.fh].entry = last'.entry
          ELSE IF ActualType(entry[Found.entry]) = TDir
          THEN /\ last'.ret = -EISDIR
               /\ UNCHANGED <<entry, file_blocks, pool, session>>
          ELSE TRUE]_vars

\* C12 as amended: create on a path that holds an entry, be it a file, a
\* directory or a symlink, returns EEXIST and changes nothing: the entry is
\* not unlinked and no session is opened.
C12_CreateExists ==
    [][(Calls("create") /\ Found.err = 0)
       => /\ last'.ret = -EEXIST
          /\ UNCHANGED <<entry, file_blocks, pool, live, dirty, buf, session>>]_vars

\* A create that has failed with EEXIST on a path that holds a file.
C12_Witness ==
    /\ last.op = "create"
    /\ last.ret = -EEXIST
    /\ IndexFind(entry, last.path, {TFile}).err = 0

\* C13: rmdir on a directory (other than the root) that has a child returns
\* ENOTEMPTY and leaves the directory and its children as they are; on a
\* directory without children it returns 0 and the path no longer resolves.
C13_RmdirNotEmpty ==
    [][(Calls("rmdir") /\ Found.err = 0 /\ ActualType(entry[Found.entry]) = TDir)
       => IF DOMAIN entry[Found.entry].children # {}
          THEN /\ last'.ret = -ENOTEMPTY
               /\ UNCHANGED <<entry, file_blocks, pool, session>>
          ELSE /\ last'.ret = 0
               /\ IndexFind(entry', last'.path, TypeAll).err = -ENOENT]_vars

\* An rmdir has been refused, and the directory still holds its child.
C13_Witness ==
    /\ last.op = "rmdir"
    /\ last.ret = -ENOTEMPTY
    /\ IndexFind(entry, last.path, {TDir}).err = 0
    /\ DOMAIN entry[IndexFind(entry, last.path, {TDir}).entry].children # {}

\* No two entries reachable from the root have the same parent and name.
NoTwins ==
    \A e1 \in Reachable, e2 \in Reachable :
        (entry[e1].parent = entry[e2].parent /\ entry[e1].name = entry[e2].name)
           => e1 = e2

\* C14: mkdir and symlink on a path that holds an entry (file, directory or
\* symlink) return EEXIST and leave every entry, with its children and its
\* timestamps, as it is; and after every call no directory holds two
\* entries of one name.
C14_ExistsRefused ==
    [][/\ ((Calls("mkdir") \/ Calls("symlink")) /\ Found.err = 0)
          => /\ last'.ret = -EEXIST
             /\ UNCHANGED <<entry, file_blocks, pool, session>>
       /\ NoTwins']_vars

\* A mkdir or symlink refused on a path that holds an entry, at a time later
\* than the modification time of the directory it is in.
C14_Witness ==
    /\ last.op \in {"mkdir", "symlink"}
    /\ last.ret = -EEXIST
    /\ LET f == IndexFind(entry, last.path, TypeAll)
       IN  /\ f.err = 0
           /\ entry[entry[f.entry].parent].mtime < now

\* C15: open and truncate on a path that resolves to a directory return
\* EISDIR; rmdir and readdir on a path that resolves to a file return ENOTDIR.
C15_VariantMismatch ==
    [][/\ ((Calls("open") \/ Calls("truncate"))
            /\ Found.err = 0 /\ ActualType(entry[Found.entry]) = TDir)
          => last'.ret = -EISDIR
       /\ ((Calls("rmdir") \/ Calls("readdir"))
            /\ Found.err = 0 /\ ActualType(entry[Found.entry]) = TFile)
          => last'.ret = -ENOTDIR]_vars

\* C16: getattr, open, create, mkdir and symlink on a path whose last but
\* one component is a regular file all return ENOTDIR.
C16_FileAsDirectory ==
    [][((\E op \in {"getattr", "open", "create", "mkdir", "symlink"} : Calls(op))
        /\ Len(last'.path) > 1
        /\ IndexFind(entry, SplitDir(last'.path), TypeAll).err = 0
        /\ ActualType(entry[IndexFind(entry, SplitDir(last'.path), TypeAll).entry]) = TFile)
       => last'.ret = -ENOTDIR]_vars

\* C17: truncate(f, s) that returns 0 leaves f with the size s, smaller than,
\* equal to or larger than the size before, and the getattr that follows
\* reports s; when s is not below the old size, no block is allocated or
\* dropped and the free-list is as before.
C17_TruncateSetsSize ==
    [][/\ (Calls("truncate") /\ last'.ret = 0)
          => /\ entry'[last'.entry].size = last'.size
             /\ last'.size >= entry[last'.entry].size
                   => /\ pool' = pool
                      /\ file_blocks' = file_blocks
                      /\ live' = live
       /\ (Calls("getattr") /\ last'.prev.op = "truncate" /\ last'.prev.ret = 0)
          => /\ last'.ret = 0
             /\ last'.stat.size = last'.prev.size]_vars

\* getattr after a truncate that made an unwritten file larger than the
\* whole pool: the size is reported, and no block is taken.
C17_Witness ==
    /\ last.op = "getattr"
    /\ last.prev.op = "truncate"
    /\ last.prev.ret = 0
    /\ last.stat.size = MaxPos
    /\ BlocksOf(file_blocks, last.entry) = {}
    /\ Len(pool) = PoolBlocks

\* C18: between calls, every Block in the block map belongs to a file that
\* is reachable from the root or that an open session holds; so the blocks
\* of a file that was unlinked and closed are all back on the free-list.
C18_NoLeakedBlocks ==
    \A k \in DOMAIN file_blocks :
        \/ k[1] \in Reachable
        \/ \E s \in Sessions : session[s].entry = k[1]

\* C19: a read during which the file was unlinked by another thread, and
\* not written, returns the byte count and the bytes it would have returned
\* without the unlink: the content of the file when the read was entered.
C19_ReadSurvivesUnlink ==
    (last.op = "read" /\ "expect" \in DOMAIN last)
       => /\ last.ret = Len(last.expect)
          /\ last.data = last.expect

\* C20: while a thread is in the transfer of a read slice it does not hold
\* the global mutex, and the mutex is free unless another thread has taken
\* it since, so that the facade calls of the other threads go ahead.
C20_ReadersDoNotBlock ==
    \A t \in Threads :
        rd[t].pc = "xfer"
           => /\ fslock # t
              /\ (\A u \in Threads \ {t} : rd[u].pc \in {"idle", "xfer", "relock"})
                    => fslock = Free

\* A call of another thread has completed while a thread is in the transfer
\* of a slice of its read.
C20_Witness ==
    \E t \in Threads :
        /\ rd[t].pc = "xfer"
        /\ last.op \in {"getattr", "unlink", "mkdir"}
        /\ last.ret = 0
        /\ last.t # t
        /\ fslock = Free

\* The Blocks of file e whose last write the device has not completed.
PendingOf(e) ==
    {b \in Buffers : /\ \E i \in 1..Len(queue) : queue[i] = b
                     /\ \E k \in BlocksOf(file_blocks, e) : file_blocks[k] = b}

\* C21: when fsync returns on a session that was written through, every
\* write enqueued before for a block of the session's file has completed,
\* whichever session it was written through; fsync returns 0, also on a
\* session never written through.
C21_FsyncCompletesWrites ==
    last.op = "fsync"
       => /\ last.ret = 0
          /\ last.block # Nil => PendingOf(last.entry) = {}

\* The updates C22 names: this step stamps the current time where the call
\* it completes has to.
Stamped ==
    /\ (Calls("write") /\ last'.ret >= 0)
          => entry'[last'.entry].mtime = now
    /\ (Calls("read") /\ last'.ret > 0)
          => entry'[last'.entry].atime = now
    /\ ((\E op \in {"chmod", "utimens", "rename", "truncate"} : Calls(op))
         /\ last'.ret = 0)
          => entry'[last'.entry].ctime = now
    /\ (Calls("create") /\ last'.ret = 0)
          => entry'[entry'[last'.entry].parent].mtime = now
    /\ (Calls("unlink") /\ last'.ret = 0)
          => entry'[entry[last'.entry].parent].mtime = now

NamesIn(ent, d) == {n \in Names : IndexFind(ent, Append(d, n), TypeAll).err = 0}

\* C23: readdir on a directory hands out ".", ".." and then one name per
\* child: every name that resolves in the directory, each once, and no
\* other; and it sets the access time of the directory to the current time.
C23_ReaddirListsChildren ==
    [][(Calls("readdir") /\ Found.err = 0 /\ ActualType(entry[Found.entry]) = TDir)
       => /\ last'.ret = 0
          /\ SubSeq(last'.names, 1, 2) = <<".", "..">>
          /\ Len(last'.names) = 2 + Cardinality(NamesIn(entry, last'.path))
          /\ {last'.names[i] : i \in 3..Len(last'.names)} = NamesIn(entry, last'.path)
          /\ entry'[Found.entry].atime = now]_vars

\* A directory listed after the clock advanced, holding one entry that a
\* rename moved there and nothing else.
C23_Witness ==
    /\ last.op = "readdir"
    /\ last.ret = 0
    /\ Len(last.names) = 3
    /\ now > 0
    /\ entry[last.entry].atime = now
    /\ entry[last.entry].mtime < now
    /\ \E e \in Ids : /\ entry[e].alloc
                      /\ entry[e].parent = last.entry
                      /\ entry[e].ctime > entry[e].mtime

\* The index without the timestamps: of every entry, whether it exists, its
\* parent, children, name, type, mode, size and target.
Index(ent) ==
    [e \in Ids |-> [alloc |-> ent[e].alloc, parent |-> ent[e].parent,
                    children |-> ent[e].children, name |-> ent[e].name,
                    dir |-> ent[e].dir, mode |-> ent[e].mode,
                    size |-> ent[e].size, target |-> ent[e].target]]

\* The calls that take a path.
PathCalls ==
    {"getattr", "readlink", "chmod", "utimens", "readdir", "create", "mkdir",
     "symlink", "unlink", "rmdir", "rename", "open", "truncate"}

\* C24: a call that takes a path and returns a negative errno leaves the
\* entries, their names, parents, children, sizes, modes and targets, the
\* block map and the number of free buffers as they were.
C24_ErrorsChangeNothing ==
    [][((\E op \in PathCalls : Calls(op)) /\ last'.ret < 0)
       => /\ Index(entry') = Index(entry)
          /\ file_blocks' = file_blocks
          /\ Len(pool') = Len(pool)]_vars

\* A rename of an existing entry has been refused because of its
\* destination, while a file holds a block.
C24_Witness ==
    /\ last.op = "rename"
    /\ last.ret < 0
    /\ IndexFind(entry, last.path, TypeAll).err = 0
    /\ DOMAIN file_blocks # {}

\* C25: after truncate(f, s) returned 0, whatever blocks f had populated
\* before, f has no block that starts at or beyond s, and every block that
\* started below s is the Block it was, with the bytes it held.
C25_TruncateDropsBlocks ==
    [][(Calls("truncate") /\ last'.ret = 0)
       => /\ \A k \in BlocksOf(file_blocks', last'.entry) : k[2] < last'.size
          /\ \A k \in BlocksOf(file_blocks, last'.entry) :
                k[2] < last'.size
                   => /\ k \in DOMAIN file_blocks'
                      /\ file_blocks'[k] = file_blocks[k]
                      /\ buf'[file_blocks[k]] = buf[file_blocks[k]]
                      /\ dirty'[file_blocks[k]] = dirty[file_blocks[k]]]_vars

\* C26: truncate(f, 0), called while no read is in progress on a file that
\* has k blocks populated, returns with k more buffers on the free-list
\* than before, whether a session that wrote the file is still open or not.
C26_TruncateFreesBlocks ==
    [][(Calls("truncate") /\ last'.ret = 0 /\ last'.size = 0 /\ NoReader)
       => Len(pool') = Len(pool)
                         + Cardinality(BlocksOf(file_blocks, last'.entry))]_vars

\* The buffer a read of thread t holds a Block of, from the lookup of the
\* slice to the end of the loop body; Nil when there is none.
ReadBuffer(t) == IF rd[t].pc = "idle" THEN Nil ELSE rd[t].block

\* C27: no buffer is on the free-list twice, no buffer on the free-list is
\* that of a Block some handle refers to, no two keys of the block map have
\* Blocks on one buffer; and the buffer a read transfers from with the
\* mutex released is not on the free-list and is in the block map under no
\* key but the one the read found it under, also after a truncate or unlink.
C27_NoBufferTwice ==
    /\ \A i \in 1..Len(pool), j \in 1..Len(pool) : pool[i] = pool[j] => i = j
    /\ \A i \in 1..Len(pool) : pool[i] \notin LiveBlocks
    /\ \A k1 \in DOMAIN file_blocks, k2 \in DOMAIN file_blocks :
          file_blocks[k1] = file_blocks[k2] => k1 = k2
    /\ \A t \in Threads :
          ReadBuffer(t) # Nil
             => /\ \A i \in 1..Len(pool) : pool[i] # ReadBuffer(t)
                /\ \A k \in DOMAIN file_blocks :
                      file_blocks[k] = ReadBuffer(t)
                         => k = <<rd[t].e, BlockStart(rd[t].off)>>

\* A thread is in the transfer of a slice from a Block that a truncate or
\* unlink has dropped from the block map, and the other thread has just
\* written a block it took from the pool.
C27_Witness ==
    \E t \in Threads :
        /\ rd[t].pc = "xfer"
        /\ rd[t].block # Nil
        /\ \A k \in DOMAIN file_blocks : file_blocks[k] # rd[t].block
        /\ last.op = "write"
        /\ last.t # t
        /\ last.ret = BlockSize
        /\ DOMAIN file_blocks # {}

\* The state the claim names: the entry tree with the sizes of the files,
\* the block map, the free-list of the pool.
SharedState == <<entry, file_blocks, pool>>

\* C28: a step that changes the entry tree, the block map, a size or the
\* free-list is taken by a thread that holds the global mutex: the mutex
\* was free for it to take, and the step is not the transfer or zero-fill
\* of a read slice; a thread inside read that does not hold the mutex is in
\* the transfer of a slice or waiting to lock again after it, and the
\* lookup of its slice was made before it gave the mutex up.
C28_MutexHeld ==
    [][/\ SharedState' # SharedState
             => /\ fslock = Free
                /\ \A t \in Threads : rd[t].pc = "xfer" => rd'[t] = rd[t]
       /\ \A t \in Threads :
             /\ rd[t].pc = "locked" => fslock = t
             /\ (rd[t].pc = "xfer" /\ rd'[t].pc = "relock")
                   => /\ fslock' = fslock
                      /\ rd'[t].block = rd[t].block
             /\ (rd[t].pc = "relock" /\ rd'[t] # rd[t]) => fslock = Free]_vars

\* A thread has ended the transfer of a slice and is about to lock again and
\* destroy its handle, the last one to a Block that a truncate or unlink
\* dropped in the meantime, while another thread holds the mutex.
C28_Witness ==
    \E t \in Threads, u \in Threads :
        /\ rd[t].pc = "relock"
        /\ rd[t].block # Nil
        /\ \A k \in DOMAIN file_blocks : file_blocks[k] # rd[t].block
        /\ \A s \in Sessions : session[s].entry # Nil
                                  => session[s].last_written_block # rd[t].block
        /\ rd[u].pc = "locked"
        /\ fslock = u

\* The byte stored at position p of file e in the memory state (fb, bf);
\* -1 where the file has no block.
StoredAt(fb, bf, e, p) ==
    IF GetBlock(fb, e, BlockStart(p)) = Nil THEN -1
    ELSE bf[GetBlock(fb, e, BlockStart(p))][p - BlockStart(p)]

\* C29: a write that returns its byte count is one step that finds the
\* mutex free and leaves it free, and in the state it leaves, the first one
\* another thread can observe, every slice is stored and the size covers
\* the write; a thread inside read holds the mutex whenever it is at the
\* lookup of a slice, and it moves to the next slice or stamps the file
\* only in a step that took the mutex when it was free.
C29_WriteAtomic ==
    [][/\ (Calls("write") /\ rd' = rd /\ last'.ret = last'.n)
             => /\ fslock = Free /\ fslock' = Free
                /\ \A t \in Threads : rd[t].pc # "locked"
                /\ \A p \in last'.off..(last'.off + last'.n - 1) :
                      StoredAt(file_blocks', buf', last'.entry, p)
                         = last'.data[p - last'.off + 1]
                /\ entry'[last'.entry].size >= last'.off + last'.n
                /\ entry'[last'.entry].mtime = now
       /\ \A t \in Threads :
             /\ rd'[t].pc = "locked" => fslock' = t
             /\ (rd[t].pc # "idle" /\ rd'[t].pc \in {"locked", "idle"}
                    /\ rd'[t] # rd[t])
                   => /\ rd[t].pc = "relock"
                      /\ fslock = Free
                      /\ fslock' = IF rd'[t].pc = "locked" THEN t ELSE Free]_vars

\* A write over two blocks has completed while the other thread is in the
\* transfer of a slice of its read of the same file.
C29_Witness ==
    \E t \in Threads :
        /\ rd[t].pc = "xfer"
        /\ rd[t].e = last.entry
        /\ last.op = "write"
        /\ last.t # t
        /\ last.n = NearPos
        /\ last.ret = NearPos

\* C30: the walk of a write stops at the first slice that gets no block
\* (the file has no block there and the pool is empty) or at the end of the
\* request, and every slice before that offset is stored; a write cut short
\* after at least one slice leaves the size at max(old size, the offset the
\* walk stopped at), sets mtime and returns -ENOSPC, and the read that
\* follows it returns the slices it stored; a write whose slices all got a
\* block returns the requested byte count.
C30_CutWriteState ==
    [][/\ Calls("write")
             => /\ last'.stop >= last'.off /\ last'.stop <= last'.off + last'.n
                /\ \A p \in last'.off..(last'.stop - 1) :
                      StoredAt(file_blocks', buf', last'.entry, p)
                         = last'.data[p - last'.off + 1]
                /\ last'.stop < last'.off + last'.n
                      => /\ last'.stop \in {last'.off, BlockStart(last'.stop)}
                         /\ GetBlock(file_blocks', last'.entry,
                                     BlockStart(last'.stop)) = Nil
                         /\ GetBlock(file_blocks, last'.entry,
                                     BlockStart(last'.stop)) = Nil
                         /\ pool' = <<>>
                /\ (last'.off < last'.stop /\ last'.stop < last'.off + last'.n)
                      => /\ entry'[last'.entry].size
                               = IF entry[last'.entry].size < last'.stop
                                 THEN last'.stop ELSE entry[last'.entry].size
                         /\ entry'[last'.entry].mtime = now
                         /\ last'.ret = -ENOSPC
                /\ last'.stop = last'.off + last'.n => last'.ret = last'.n
       /\ (Calls("read") /\ last.op = "write" /\ last.ret = -ENOSPC)
             => \A p \in last.off..(last.stop - 1) :
                   /\ p < last'.ret
                   /\ last'.data[p + 1] = last.data[p - last.off + 1]]_vars

\* A write into a file larger than the offset its walk stopped at has stored
\* one slice at least and has been cut short.
C30_Witness ==
    /\ last.op = "write"
    /\ last.ret = -ENOSPC
    /\ last.off < last.stop
    /\ last.stop < entry[last.entry].size
    /\ pool = <<>>

\* C31: a write that stores no byte (a request of zero bytes, or a walk
\* whose first slice gets no block) leaves the size and the mtime of the
\* file as they were, also when the offset is beyond the size.
C31_EmptyWriteChangesNothing ==
    [][(Calls("write") /\ last'.stop = last'.off)
          => /\ entry'[last'.entry].size = entry[last'.entry].size
             /\ entry'[last'.entry].mtime = entry[last'.entry].mtime]_vars

\* The data_copy slots the writes in the queue, or the callbacks due, point to.
Owed ==
    {cmdq[i].ptr : i \in {j \in 1..Len(cmdq) : cmdq[j].kind = "write"}}
       \cup {events[i] : i \in 1..Len(events)}

\* C32: whatever the caller does with its buffer after block::write has
\* returned, once the device has executed the writes the buffer of the Block
\* holds the bytes as they were at the calls; the device never reads a
\* data_copy that was freed, no data_copy is freed twice, the caller's buffer
\* is never freed by the callback; the copies alive are those of the writes
\* not yet completed or whose callback is due, each of them once, so none is
\* left when all writes have completed and their callbacks have run.
C32_PayloadLifecycle ==
    /\ sent.err = "none"
    /\ cmdq = <<>> => blk.buffer = sent.want
    /\ \A i \in 1..Len(cmdq) :
          cmdq[i].kind = "write" => /\ cmdq[i].ptr # CallerPtr
                                    /\ copies[cmdq[i].ptr].live
    /\ {c \in Slots : copies[c].live} = Owed
    /\ Cardinality(Owed)
          = Len(SelectSeq(cmdq, LAMBDA c : c.kind = "write")) + Len(events)

\* The caller has freed its buffer after two asynchronous writes returned:
\* the device has executed one, whose callback is due, and not yet the other.
C32_Witness ==
    /\ ~caller.ok
    /\ events # <<>>
    /\ cmdq # <<>>
    /\ Head(cmdq).kind = "write"
    /\ copies[Head(cmdq).ptr].live
    /\ blk.buffer # sent.want

\* Position p is in the range the step, if it is a write, has stored.
JustWritten(e, p) ==
    /\ last'.op = "write"
    /\ last'.entry = e
    /\ p >= last'.off
    /\ p < last'.stop

\* C33: the bytes beyond the size of a file are gone: when a file grows, by
\* truncate or by a write beyond its end, every position from the old size
\* up to the new one that the step itself did not write reads as zero, also
\* in the block that contains the old size.
C33_CutBytesStayGone ==
    [][\A e \in Ids :
          (/\ ActualType(entry[e]) = TFile
           /\ ActualType(entry'[e]) = TFile
           /\ entry'[e].size > entry[e].size)
             => \A p \in entry[e].size..(entry'[e].size - 1) :
                   JustWritten(e, p)
                      \/ ByteAtIn(file_blocks', dirty', buf', e, p) = 0]_vars

RECURSIVE Rooted(_, _, _)
\* Following the parent references from e reaches the root within n steps.
Rooted(ent, e, n) ==
    IF e = RootId THEN TRUE
    ELSE IF n = 0 \/ ent[e].parent = Nil THEN FALSE
    ELSE Rooted(ent, ent[e].parent, n - 1)

\* C34: after a rename that returned 0, every entry that was reachable from
\* the root before it, the replaced destination excepted, is reachable from
\* the root, and the parent references lead from every reachable entry to
\* the root.
C34_RenameKeepsSubtrees ==
    [][(Calls("rename") /\ last'.ret = 0)
          => /\ \A e \in Below(entry, {RootId}) :
                   e # last'.dest => e \in Below(entry', {RootId})
             /\ \A e \in Below(entry', {RootId}) :
                   Rooted(entry', e, MaxEntries)]_vars

\* C35: the path "/" resolves to a directory in every state, no call has
\* dereferenced the null parent of the root, and an rmdir, unlink or rename
\* of "/" has returned an error or has left the tree as it was.
C35_RootIsPermanent ==
    [][/\ ~crashed'
       /\ IndexFind(entry', RootPath, {TDir}) = [err |-> 0, entry |-> RootId]
       /\ ((\E op \in {"rmdir", "unlink", "rename"} : Calls(op))
             /\ last'.path = RootPath)
             => (last'.ret < 0 \/ Index(entry') = Index(entry))]_vars

\* C36: no call dies before it returns; the mutex is held only by a thread
\* inside read at the lookup of a slice, so every call that has returned has
\* released it; a thread takes the mutex only when it is free and gives it
\* up only when it holds it; and every thread inside read returns.
C36_LockBalance ==
    /\ [](~crashed)
    /\ [](\A t \in Threads : rd[t].pc = "locked" <=> fslock = t)
    /\ [][\A t \in Threads :
             /\ (fslock # t /\ fslock' = t) => fslock = Free
             /\ (fslock = t /\ fslock' # t) => fslock' = Free]_vars
    /\ \A t \in Threads : (rd[t].pc # "idle") ~> (rd[t].pc = "idle")

RECURSIVE At(_)
\* The entry the path names in the tree, Nil when it names none.
At(path) ==
    IF path = <<>> THEN RootId
    ELSE LET d == At(Front(path))
         IN  IF d # Nil /\ entry[d].dir /\ Last(path) \in DOMAIN entry[d].children
             THEN entry[d].children[Last(path)]
             ELSE Nil

\* The first i components of the path.
Prefix(path, i) == SubSeq(path, 1, i)

\* C37: index_find with an empty filter returns ENOENT and resolves
\* nothing; a component missing from its directory gives ENOENT, a component
\* looked up in an entry that is no directory ENOTDIR; for the entry found,
\* a file where only a symlink is accepted gives ENOENT, a directory where
\* only a symlink is accepted EPERM, a symlink the filter excludes EPERM;
\* an entry of a variant the filter accepts is returned with 0, and so is
\* the root for the path "/".
C37_FindErrors ==
    last.op = "find"
       => /\ last.filter = {} => (last.ret = -ENOENT /\ last.entry = Nil)
          /\ last.filter # {} =>
                /\ \A i \in 1..Len(last.path) :
                      LET d == At(Prefix(last.path, i - 1))
                      IN  /\ (d # Nil /\ entry[d].dir /\ At(Prefix(last.path, i)) = Nil)
                                => last.ret = -ENOENT
                          /\ (d # Nil /\ ~entry[d].dir) => last.ret = -ENOTDIR
                /\ At(last.path) # Nil =>
                      LET at == ActualType(entry[At(last.path)])
                      IN  /\ (at = TFile /\ last.filter = {TLink}) => last.ret = -ENOENT
                          /\ (at = TDir /\ last.filter = {TLink}) => last.ret = -EPERM
                          /\ (at = TLink /\ TLink \notin last.filter)
                                => last.ret = -EPERM
                          /\ at \in last.filter
                                => (last.ret = 0 /\ last.entry = At(last.path))
                /\ (last.path = RootPath /\ TDir \in last.filter)
                      => (last.ret = 0 /\ last.entry = RootId)

\* index_find has found a directory at /a where only a symlink is accepted.
C37_Witness ==
    /\ last.op = "find"
    /\ last.path = PathA
    /\ last.filter = {TLink}
    /\ last.ret = -EPERM
    /\ At(PathA) # Nil
    /\ entry[At(PathA)].dir

\* A slice lies inside one block that starts at a multiple of the block size.
InOneBlock(block_start, block_off, size) ==
    /\ block_start % BlockSize = 0
    /\ block_off >= 0
    /\ block_off < BlockSize
    /\ size > 0
    /\ block_off + size <= BlockSize

\* C38: the slices of a write start at its offset, follow one another
\* without gap or overlap and end where the walk stopped, at the end of the
\* request when every slice got a block; the slices of a read start at its
\* offset, follow one another and end at the end of the request clamped to
\* the size of the file; every slice lies inside one block, and every key
\* of the block map is a multiple of the block size.
C38_AlignedSlices ==
    [][/\ \A k \in DOMAIN file_blocks' : k[2] % BlockSize = 0
       /\ (Calls("write") /\ rd' = rd)
             => LET sl == last'.slices
                    from(i) == sl[i].block_start + sl[i].block_off
                IN  /\ \A i \in 1..Len(sl) :
                          /\ InOneBlock(sl[i].block_start, sl[i].block_off, sl[i].size)
                          /\ from(i) = IF i = 1 THEN last'.off
                                        ELSE from(i - 1) + sl[i - 1].size
                    /\ last'.stop = IF sl = <<>> THEN last'.off
                                     ELSE from(Len(sl)) + sl[Len(sl)].size
                    /\ last'.ret = last'.n => last'.stop = last'.off + last'.n
       /\ \A t \in Threads :
             /\ rd'[t].pc # "idle"
                   => /\ InOneBlock(BlockStart(rd'[t].off), rd'[t].block_off,
                                     rd'[t].read_size)
                      /\ BlockStart(rd'[t].off) + rd'[t].block_off = rd'[t].off
                      /\ rd'[t].off + rd'[t].read_size <= rd'[t].end_pos
             /\ (rd[t].pc = "idle" /\ rd'[t].pc = "locked")
                   => /\ rd'[t].off = rd'[t].req_off
                      /\ rd'[t].end_pos
                            = rd'[t].req_off
                                 + Min(entry[rd'[t].e].size - rd'[t].req_off,
                                       rd'[t].req_n)
             /\ (rd[t].pc = "relock" /\ rd'[t].pc = "locked")
                   => /\ rd'[t].off = rd[t].off + rd[t].read_size
                      /\ rd'[t].end_pos = rd[t].end_pos
             /\ (rd[t].pc = "relock" /\ rd'[t].pc = "idle")
                   => rd[t].off + rd[t].read_size = rd[t].end_pos]_vars

\* A write that started inside a block has stored three slices, the first
\* and the last shorter than a block.
C38_Witness ==
    /\ last.op = "write"
    /\ last.ret = last.n
    /\ Len(last.slices) = PoolBlocks
    /\ last.slices[1].block_off > 0
    /\ last.slices[PoolBlocks].size < BlockSize
    /\ \E t \in Threads : rd[t].pc = "xfer" /\ rd[t].off > rd[t].req_off
                              /\ rd[t].block_off = 0
                              /\ rd[t].req_off % BlockSize # 0

\* C39: increase_pool(byte_size) adds ceil(byte_size / block_size) buffers,
\* or the buffers before the first failure; pool_size() and pool_available()
\* both grow by the number added and the return value is block_size times
\* that number, at least byte_size when nothing failed and 0 for
\* byte_size = 0.
C39_PoolGrowth ==
    [][Calls("increase_pool")
         => LET added == pool_size' - pool_size
                want == (last'.size + BlockSize - 1) \div BlockSize
            IN  /\ pool_available' - pool_available = added
                /\ added >= 0
                /\ added <= want
                /\ ~last'.failed => added = want
                /\ last'.ret = BlockSize * added
                /\ ~last'.failed => last'.ret >= last'.size
                /\ last'.size = 0 => last'.ret = 0]_vars

\* C40: a read leaves the size, block map, content, mode, mtime and ctime of
\* its file and every other entry as they were and leaves the free-list
\* unchanged; the only field it may modify is the atime of the file.
C40_ReadChangesAtimeOnly ==
    [][Calls("read")
         => /\ entry' = [entry EXCEPT ![last'.entry].atime = entry'[last'.entry].atime]
            /\ file_blocks' = file_blocks
            /\ ContentIn(entry', file_blocks', dirty', buf', last'.entry)
                  = ContentIn(entry, file_blocks, dirty, buf, last'.entry)
            /\ buf' = buf
            /\ pool' = pool]_vars

====
